---- MODULE Spec2Model ----
(***************************************************************************)
(* Model of the PumpSwap sniper pipeline: the two stream consumers and     *)
(* SniperBot::start (sniper.rs, grpc_client.rs), the per-event tasks       *)
(* process_new_listing / process_price_update with the trade_semaphore,    *)
(* the MEV detector's scoring (mev_detector.rs) and the confirmation wait  *)
(* loops of the two backends (jito_client.rs, nozomi_client.rs).           *)
(*                                                                         *)
(* Units of the inputs: liquidity in milli-SOL, floors in 1e-4 SOL, scores *)
(* in percent, random factors in per-mille of [0,1), volume and price in   *)
(* USD, the clock of the confirmation wait in ticks of 50 ms.  Profits,    *)
(* combined scores and slippage bounds are f64 values.                     *)
(***************************************************************************)
EXTENDS Integers, Sequences, FiniteSets, Bags, TLC

VARIABLES
    cfg,          \* Config behind Arc<RwLock<..>> (never written after startup)
    permits,      \* permits available in trade_semaphore
    waitq,        \* the tasks suspended in trade_semaphore.acquire(), FIFO
    tasks,        \* the other per-event tasks spawned by the stream callbacks (a bag of task states)
    lstream,      \* listing consumer (TokenListingStream::start_streaming)
    pstream,      \* price consumer (PriceUpdateStream::start_streaming)
    nread,        \* messages read from the two streams so far
    startPc,      \* SniperBot::start: "running" | "returned"
    w,            \* one confirmation wait (wait_for_bundle_confirmation / wait_for_confirmation)
    statusLog,    \* the statuses get_bundle_status has returned for one bundle id, in call order
    manager,      \* BundleManager / NozomiManager: tracked submissions and the submit call in progress
    price_history, \* MEVDetector.price_history: token -> its price points, oldest first
    pushed,       \* per token, the number of price points update_price_history has appended
    call          \* one call of a function of the detector or the sniper: its input and its result

pipeVars == <<cfg, permits, waitq, tasks, lstream, pstream, nread, startPc>>
unitVars == <<statusLog, manager, price_history, pushed, call>>
vars == <<cfg, permits, waitq, tasks, lstream, pstream, nread, startPc, w, unitVars>>

(***************************************************************************)
(* Bounds of the model                                                     *)
(***************************************************************************)
MaxEvents == 3        \* messages read from the two streams per run
MaxCapacity == 2      \* max_concurrent_trades ranges over 1..MaxCapacity
MaxTimeout == 5       \* confirmation timeout ranges over 0..MaxTimeout ticks

(***************************************************************************)
(* Program constants                                                       *)
(***************************************************************************)
MinLiquidity == 10000         \* min_liquidity 10.0 SOL, in milli-SOL
VolumeThreshold == 1000       \* volume_threshold, USD
FrontrunFloor == 1000         \* expected_profit > 0.1
ArbitrageFloor == 500         \* expected_profit > 0.05
SandwichFloor == 2000         \* expected_profit > 0.2
BackrunFloor == 1500          \* expected_profit > 0.15
CriticalScore == 80           \* combined_score > 0.8, in percent
HighScore == 60               \* combined_score > 0.6
MediumScore == 40             \* combined_score > 0.4
PollTicks == 1                \* get_bundle_status sleeps 50 ms
SleepTicks == 2               \* the wait loop sleeps 100 ms between polls

Low == 1
Medium == 2
High == 3
Critical == 4

Tokens == {"A", "B"}
Liquidities == {5000, 100000}            \* 5 and 100 SOL
Volumes == {500, 5000}
Prices == {2000}
RandomSamples == {0, 999}                 \* rand::random::<f64>() in [0,1)

Min(a, b) == IF a < b THEN a ELSE b

\* `a - b` on u64 overflows when a < b. A build with overflow checks panics
\* there; a build without wraps to 2^64 - (b - a), which is above every
\* retention window and every timestamp.
SubOverflows(a, b) == a < b

(***************************************************************************)
(* f64 arithmetic.  The code computes profits, scores and slippage bounds  *)
(* in f64; the model computes them as IEEE 754 binary64 does, rounding to  *)
(* nearest, ties to even, after every operation.  A finite value other     *)
(* than zero is neg, m, e with 2^52 <= m < 2^53 and value m * 2^e, m held  *)
(* as its digits in base 2^14, lowest first; the magnitudes of the model   *)
(* stay far inside the range of normal doubles.  NaN is the result of      *)
(* 0.0 / 0.0.                                                              *)
(***************************************************************************)
LimbBits == 7 * 2
LimbBase == 2^LimbBits
MantissaBits == 52 + 1

\* natural numbers of any size: sequences of digits in base 2^14
RECURSIVE BigTrim(_)
BigTrim(a) ==
    IF a # <<>> /\ a[Len(a)] = 0 THEN BigTrim(SubSeq(a, 1, Len(a) - 1)) ELSE a

BigFromInt(n) ==
    BigTrim(<<n % LimbBase, (n \div LimbBase) % LimbBase, n \div (LimbBase * LimbBase)>>)

RECURSIVE BigMulSmallFrom(_, _, _, _)
BigMulSmallFrom(a, k, i, carry) ==
    IF i > Len(a) THEN (IF carry = 0 THEN <<>> ELSE <<carry>>)
    ELSE <<(a[i] * k + carry) % LimbBase>>
         \o BigMulSmallFrom(a, k, i + 1, (a[i] * k + carry) \div LimbBase)

\* a * k, 0 < k <= 2^14
BigMulSmall(a, k) == BigMulSmallFrom(a, k, 1, 0)

\* long division from the highest digit down; q holds the digits found so far
RECURSIVE BigDivSmallFrom(_, _, _, _, _)
BigDivSmallFrom(a, d, i, rem, q) ==
    IF i = 0 THEN [q |-> BigTrim(q), r |-> rem]
    ELSE BigDivSmallFrom(a, d, i - 1, (rem * LimbBase + a[i]) % d,
                         <<(rem * LimbBase + a[i]) \div d>> \o q)

\* quotient and remainder of a by d, 0 < d < 2^17
BigDivSmall(a, d) == BigDivSmallFrom(a, d, Len(a), 0, <<>>)

\* the digit of a at place i
Digit(a, i) == IF i <= Len(a) THEN a[i] ELSE 0

RECURSIVE BigAddFrom(_, _, _, _)
BigAddFrom(a, b, i, carry) ==
    IF i > Len(a) /\ i > Len(b) THEN (IF carry = 0 THEN <<>> ELSE <<carry>>)
    ELSE <<(Digit(a, i) + Digit(b, i) + carry) % LimbBase>>
         \o BigAddFrom(a, b, i + 1, (Digit(a, i) + Digit(b, i) + carry) \div LimbBase)

BigAdd(a, b) == BigAddFrom(a, b, 1, 0)

RECURSIVE BigSubFrom(_, _, _, _)
BigSubFrom(a, b, i, borrow) ==
    IF i > Len(a) THEN <<>>
    ELSE <<(a[i] - Digit(b, i) - borrow) % LimbBase>>
         \o BigSubFrom(a, b, i + 1, IF a[i] - Digit(b, i) - borrow < 0 THEN 1 ELSE 0)

\* a - b for a >= b
BigSub(a, b) == BigTrim(BigSubFrom(a, b, 1, 0))

RECURSIVE BigCmpFrom(_, _, _)
BigCmpFrom(a, b, i) ==
    IF i = 0 THEN 0
    ELSE IF a[i] # b[i] THEN (IF a[i] > b[i] THEN 1 ELSE 0 - 1)
    ELSE BigCmpFrom(a, b, i - 1)

\* -1, 0, 1 as a < b, a = b, a > b
BigCmp(a, b) ==
    IF Len(a) # Len(b) THEN (IF Len(a) > Len(b) THEN 1 ELSE 0 - 1)
    ELSE BigCmpFrom(a, b, Len(a))

RECURSIVE SmallBits(_)
SmallBits(x) == IF x = 0 THEN 0 ELSE 1 + SmallBits(x \div 2)

\* the number of binary digits of a
BigBits(a) ==
    IF a = <<>> THEN 0 ELSE LimbBits * (Len(a) - 1) + SmallBits(a[Len(a)])

\* a * 2^k
BigShl(a, k) ==
    IF a = <<>> THEN <<>>
    ELSE [i \in 1..(k \div LimbBits) |-> 0] \o BigMulSmall(a, 2^(k % LimbBits))

\* a \div 2^k
BigShr(a, k) ==
    IF k \div LimbBits >= Len(a) THEN <<>>
    ELSE BigDivSmall(SubSeq(a, k \div LimbBits + 1, Len(a)), 2^(k % LimbBits)).q

RECURSIVE BigMulFrom(_, _, _)
BigMulFrom(a, b, i) ==
    IF i > Len(b) THEN <<>>
    ELSE BigAdd(IF b[i] = 0 THEN <<>> ELSE BigMulSmall(a, b[i]),
                <<0>> \o BigMulFrom(a, b, i + 1))

BigMul(a, b) == BigTrim(BigMulFrom(a, b, 1))

BigOne == <<1>>

F64Zero == [neg |-> FALSE, m |-> <<>>, e |-> 0]
NaN == [nan |-> TRUE]

\* m * 2^e for a mantissa of 53 bits, or of 54 after a carry out of the
\* rounding (then m is 2^53)
F64Carried(neg, m, e) ==
    IF BigBits(m) > MantissaBits
    THEN [neg |-> neg, m |-> BigShr(m, 1), e |-> e + 1]
    ELSE [neg |-> neg, m |-> m, e |-> e]

\* q rounded by what was cut off below it: half is -1, 0, 1 as the part cut
\* off is below, at, above half a unit of q; ties go to the even mantissa
RoundedUp(q, half) ==
    IF half > 0 \/ (half = 0 /\ q[1] % 2 = 1) THEN BigAdd(q, BigOne) ELSE q

\* n * 2^e with the lowest k bits of n cut off, q the bits that stay
F64CutOff(neg, n, e, k, q) ==
    F64Carried(neg,
               RoundedUp(q, BigCmp(BigMulSmall(BigSub(n, BigShl(q, k)), 2),
                                   BigShl(BigOne, k))),
               e + k)

\* n * 2^e for n of `bits` binary digits
F64OfBits(neg, n, e, bits) ==
    IF bits = 0 THEN F64Zero
    ELSE IF bits <= MantissaBits
    THEN [neg |-> neg, m |-> BigShl(n, MantissaBits - bits), e |-> e - (MantissaBits - bits)]
    ELSE F64CutOff(neg, n, e, bits - MantissaBits, BigShr(n, bits - MantissaBits))

\* the double nearest to n * 2^e, ties to even
F64Round(neg, n, e) == F64OfBits(neg, n, e, BigBits(n))

\* a quotient q with its remainder: 2q, or 2q + 1 when the division left a
\* remainder, which rounds as the exact quotient does
WithSticky(x) ==
    IF x.r = 0 THEN BigMulSmall(x.q, 2) ELSE BigAdd(BigMulSmall(x.q, 2), BigOne)

\* the double nearest to n / d: `n as f64 / d as f64` for integers below 2^53,
\* and the value of a decimal literal (0.1 is F64FromRatio(1, 10))
F64FromRatio(n, d) ==
    IF n = 0 THEN F64Zero
    ELSE F64Round(FALSE, WithSticky(BigDivSmall(BigShl(BigFromInt(n), 5 * LimbBits), d)),
                  0 - 5 * LimbBits - 1)

F64FromInt(n) == F64FromRatio(n, 1)

F64Neg(x) == IF x = NaN \/ x = F64Zero THEN x ELSE [x EXCEPT !.neg = ~@]
F64Abs(x) == IF x = NaN \/ x = F64Zero THEN x ELSE [x EXCEPT !.neg = FALSE]

\* x * y
F64Mul(x, y) ==
    IF x = NaN \/ y = NaN THEN NaN
    ELSE IF x = F64Zero \/ y = F64Zero THEN F64Zero
    ELSE F64Round(x.neg # y.neg, BigMul(x.m, y.m), x.e + y.e)

\* x / d for a double d that is a whole number, 0 < d < 2^17
F64DivSmall(x, d) ==
    IF x = NaN THEN NaN
    ELSE IF x = F64Zero THEN F64Zero
    ELSE F64Round(x.neg, WithSticky(BigDivSmall(BigShl(x.m, 2 * LimbBits), d)),
                  x.e - 2 * LimbBits - 1)

\* -1, 0, 1 as |x| < |y|, |x| = |y|, |x| > |y|
F64CmpAbs(x, y) ==
    IF x = F64Zero THEN (IF y = F64Zero THEN 0 ELSE 0 - 1)
    ELSE IF y = F64Zero THEN 1
    ELSE IF x.e # y.e THEN (IF x.e > y.e THEN 1 ELSE 0 - 1)
    ELSE BigCmp(x.m, y.m)

\* a * 2^e with the sign of x plus b * 2^e with the sign of y
F64AddAligned(x, y, a, b, e) ==
    IF x.neg = y.neg THEN F64Round(x.neg, BigAdd(a, b), e)
    ELSE IF BigCmp(a, b) = 0 THEN F64Zero
    ELSE IF BigCmp(a, b) > 0 THEN F64Round(x.neg, BigSub(a, b), e)
    ELSE F64Round(y.neg, BigSub(b, a), e)

\* x + y
F64Add(x, y) ==
    IF x = NaN \/ y = NaN THEN NaN
    ELSE IF x = F64Zero THEN y
    ELSE IF y = F64Zero THEN x
    ELSE F64AddAligned(x, y, BigShl(x.m, x.e - Min(x.e, y.e)),
                       BigShl(y.m, y.e - Min(x.e, y.e)), Min(x.e, y.e))

\* x - y
F64Sub(x, y) == F64Add(x, F64Neg(y))

F64Negative(x) == x # F64Zero /\ x.neg

\* x > y on f64: false when either side is NaN
Greater(x, y) ==
    /\ x # NaN
    /\ y # NaN
    /\ IF F64Negative(x) # F64Negative(y) THEN F64Negative(y)
       ELSE IF F64Negative(x) THEN F64CmpAbs(x, y) < 0
       ELSE F64CmpAbs(x, y) > 0

\* x >= y on f64
AtLeast(x, y) == x # NaN /\ y # NaN /\ ~Greater(y, x)

\* f64::min: the smaller one, the other one when one side is NaN
F64Min(x, y) ==
    IF x = NaN THEN y
    ELSE IF y = NaN THEN x
    ELSE IF Greater(x, y) THEN y ELSE x

\* an amount of n * 1e-4 SOL, a score of n percent, n per-mille of a random
\* factor: the double nearest to the decimal
Amount(n) == F64FromRatio(n, 10000)
Percent(n) == F64FromRatio(n, 100)
PerMille(n) == F64FromRatio(n, 1000)

NoSignal == [strategy |-> "none", priority |-> 0, expected_profit |-> F64Zero]

(***************************************************************************)
(* mev_detector.rs: scoring                                                *)
(***************************************************************************)

\* base_profit 1.0 instead of 0.5
CalculateFrontrunProfitDoubled(liq, rnd) ==
    LET liquidity_factor == F64DivSmall(F64Min(PerMille(liq), F64FromInt(100)), 100)
        random_factor == F64Add(F64Mul(PerMille(rnd), F64FromRatio(1, 2)), F64FromRatio(1, 2))
    IN  F64Mul(F64Mul(F64FromInt(1), liquidity_factor), random_factor)

\* 0.5 * ((liq as f64 / 1e9).min(100.0) / 100.0) * (rnd * 0.5 + 0.5)
CalculateFrontrunProfit(liq, rnd) ==
    LET liquidity_factor == F64DivSmall(F64Min(PerMille(liq), F64FromInt(100)), 100)
        random_factor == F64Add(F64Mul(PerMille(rnd), F64FromRatio(1, 2)), F64FromRatio(1, 2))
    IN  F64Mul(F64Mul(F64FromRatio(1, 2), liquidity_factor), random_factor)

\* 0.3 * ((liq as f64 / 1e9).min(50.0) / 50.0) * (rnd * 0.3 + 0.7)
CalculateArbitrageProfit(liq, rnd) ==
    LET liquidity_factor == F64DivSmall(F64Min(PerMille(liq), F64FromInt(50)), 50)
        random_factor == F64Add(F64Mul(PerMille(rnd), F64FromRatio(3, 10)), F64FromRatio(7, 10))
    IN  F64Mul(F64Mul(F64FromRatio(3, 10), liquidity_factor), random_factor)

\* 0.4 * (volume / 10000.0).min(1.0) * ((price - price * 0.95).abs() / price);
\* 0.0 / 0.0 at price 0
CalculateSandwichProfit(volume, price) ==
    LET volume_factor == F64Min(F64FromRatio(volume, 10000), F64FromInt(1))
        price_usd == F64FromInt(price)
        price_impact ==
            IF price = 0 THEN NaN
            ELSE F64DivSmall(F64Abs(F64Sub(price_usd, F64Mul(price_usd, F64FromRatio(95, 100)))),
                             price)
    IN  F64Mul(F64Mul(F64FromRatio(4, 10), volume_factor), price_impact)

\* 0.25 * (volume / 5000.0).min(1.0) * (rnd * 0.4 + 0.6)
CalculateBackrunProfit(volume, rnd) ==
    LET volume_factor == F64Min(F64FromRatio(volume, 5000), F64FromInt(1))
        random_factor == F64Add(F64Mul(PerMille(rnd), F64FromRatio(4, 10)), F64FromRatio(6, 10))
    IN  F64Mul(F64Mul(F64FromRatio(1, 4), volume_factor), random_factor)

\* profit_score * confidence_score * (1.0 - risk_score), the scores given in
\* percent
CombinedScore(profit, confidence, risk) ==
    F64Mul(F64Mul(profit, Percent(confidence)), F64Sub(F64FromInt(1), Percent(risk)))

\* `score if score > 0.8 => Critical` and so on, with >= in place of >
ScorePriorityInclusive(combined_score) ==
    IF AtLeast(combined_score, Percent(CriticalScore)) THEN Critical
    ELSE IF AtLeast(combined_score, Percent(HighScore)) THEN High
    ELSE IF AtLeast(combined_score, Percent(MediumScore)) THEN Medium
    ELSE Low

CalculatePriorityInclusive(profit, confidence, risk) ==
    ScorePriorityInclusive(CombinedScore(profit, confidence, risk))

\* `match combined_score { score if score > 0.8 => Critical, .. }`
ScorePriority(combined_score) ==
    IF Greater(combined_score, Percent(CriticalScore)) THEN Critical
    ELSE IF Greater(combined_score, Percent(HighScore)) THEN High
    ELSE IF Greater(combined_score, Percent(MediumScore)) THEN Medium
    ELSE Low

CalculatePriority(profit, confidence, risk) ==
    ScorePriority(CombinedScore(profit, confidence, risk))

MkSignal(strategy, profit, confidence, risk) ==
    [strategy |-> strategy,
     priority |-> CalculatePriority(profit, confidence, risk),
     expected_profit |-> profit]

\* `if expected_profit > floor { .. return Ok(Some(MEVSignal {..})) } Ok(None)`,
\* the floor in 1e-4 SOL
SignalAbove(floor, strategy, expected_profit, confidence, risk) ==
    IF Greater(expected_profit, Amount(floor))
    THEN MkSignal(strategy, expected_profit, confidence, risk)
    ELSE NoSignal

DetectFrontrunOpportunity(listing, rnd) ==
    SignalAbove(FrontrunFloor, "frontrun",
                CalculateFrontrunProfit(listing.initial_liquidity, rnd), 80, 30)

DetectArbitrageOpportunityMislabelled(listing, rnd) ==
    SignalAbove(ArbitrageFloor, "backrun",
                CalculateArbitrageProfit(listing.initial_liquidity, rnd), 90, 20)

DetectArbitrageOpportunity(listing, rnd) ==
    SignalAbove(ArbitrageFloor, "arbitrage",
                CalculateArbitrageProfit(listing.initial_liquidity, rnd), 90, 20)

DetectSandwichOpportunity(update) ==
    SignalAbove(SandwichFloor, "sandwich",
                CalculateSandwichProfit(update.volume_1h, update.price_usd), 70, 60)

DetectBackrunOpportunity(update, rnd) ==
    SignalAbove(BackrunFloor, "backrun",
                CalculateBackrunProfit(update.volume_1h, rnd), 85, 40)

\* The detectors on the events the specifications below draw, computed once:
\* liquidity in milli-SOL, volume and price in USD, random factors in
\* per-mille.
LiquidityGrid == {0, 5000, 9999, 10000, 10001, 11904, 11905, 40000, 40001, 49999, 50000,
                  100000, 1000000}
VolumeGrid == {0, 500, 1000, 3750, 4000, 4999, 5000, 10000, 1000000}
PriceGrid == {0, 1, 19, 2000}
RandomGrid == {0, 125, 375, 500, 999}

FrontrunSignals ==
    [liq \in LiquidityGrid, rnd \in RandomGrid |->
        DetectFrontrunOpportunity([initial_liquidity |-> liq], rnd)]
ArbitrageSignals ==
    [liq \in LiquidityGrid, rnd \in RandomGrid |->
        DetectArbitrageOpportunity([initial_liquidity |-> liq], rnd)]
SandwichSignals ==
    [volume \in VolumeGrid, price \in PriceGrid |->
        DetectSandwichOpportunity([volume_1h |-> volume, price_usd |-> price])]
BackrunSignals ==
    [volume \in VolumeGrid, rnd \in RandomGrid |->
        DetectBackrunOpportunity([volume_1h |-> volume], rnd)]

\* detect_*_opportunity on an event of the grids
FrontrunSignal(listing, rnd) == FrontrunSignals[listing.initial_liquidity, rnd]
ArbitrageSignal(listing, rnd) == ArbitrageSignals[listing.initial_liquidity, rnd]
SandwichSignal(update) == SandwichSignals[update.volume_1h, update.price_usd]
BackrunSignal(update, rnd) == BackrunSignals[update.volume_1h, rnd]

\* `if let Some(signal) = first? { return Ok(Some(signal)) }`, then the second
FirstSignal(first, second) == IF first # NoSignal THEN first ELSE second

AnalyzeNewListingUngated(listing, c, r1, r2) ==
    FirstSignal(IF "frontrun" \in c.mev_strategies
                THEN FrontrunSignal(listing, r1) ELSE NoSignal,
                IF "arbitrage" \in c.mev_strategies
                THEN ArbitrageSignal(listing, r2) ELSE NoSignal)

\* the two detectors tried in the other order
AnalyzeNewListingArbitrageFirst(listing, c, r1, r2) ==
    IF listing.initial_liquidity < c.min_liquidity THEN NoSignal
    ELSE FirstSignal(IF "arbitrage" \in c.mev_strategies
                     THEN ArbitrageSignal(listing, r2) ELSE NoSignal,
                     IF "frontrun" \in c.mev_strategies
                     THEN FrontrunSignal(listing, r1) ELSE NoSignal)

\* analyze_new_listing: the first detector that yields a signal returns
AnalyzeNewListing(listing, c, r1, r2) ==
    IF listing.initial_liquidity < c.min_liquidity THEN NoSignal
    ELSE FirstSignal(IF "frontrun" \in c.mev_strategies
                     THEN FrontrunSignal(listing, r1) ELSE NoSignal,
                     IF "arbitrage" \in c.mev_strategies
                     THEN ArbitrageSignal(listing, r2) ELSE NoSignal)

\* analyze_price_update
AnalyzePriceUpdate(update, c, r1) ==
    IF update.volume_1h < VolumeThreshold THEN NoSignal
    ELSE FirstSignal(IF "sandwich" \in c.mev_strategies
                     THEN SandwichSignal(update) ELSE NoSignal,
                     IF "backrun" \in c.mev_strategies
                     THEN BackrunSignal(update, r1) ELSE NoSignal)

(***************************************************************************)
(* sniper.rs: the snipe decision                                           *)
(***************************************************************************)
ShouldSnipeTokenStrict(listing, c) ==
    IF listing.initial_liquidity <= c.min_liquidity THEN FALSE
    ELSE IF c.target_tokens # {} /\ listing.token_address \notin c.target_tokens THEN FALSE
    ELSE TRUE

ShouldSnipeToken(listing, c) ==
    IF listing.initial_liquidity < c.min_liquidity THEN FALSE
    ELSE IF c.target_tokens # {} /\ listing.token_address \notin c.target_tokens THEN FALSE
    ELSE TRUE

\* the filter of TokenListingStream::start_streaming (its own copy of target_tokens)
StreamAccepts(listing, targets) ==
    targets = {} \/ listing.token_address \in targets

(***************************************************************************)
(* Per-event tasks. A task is the record of its position and locals; the   *)
(* runnable ones form the bag `tasks`, the ones parked in acquire() form   *)
(* the queue `waitq`; a task that has returned is in neither.              *)
(***************************************************************************)
NewTask(kind, ev) ==
    [kind |-> kind, pc |-> "spawned", holds |-> FALSE, ev |-> ev,
     snipe |-> "none", signal |-> NoSignal]


Bag1(x) == SetToBag({x})
Replace(bag, old, new) == (bag (-) Bag1(old)) (+) Bag1(new)

\* a task that has returned (Ok or Err, which its spawner only logs) is gone
Retire(bag, task) == bag (-) Bag1(task)
Running == BagToSet(tasks)
Waiting == {waitq[i] : i \in 1..Len(waitq)}

(***************************************************************************)
(* trade_semaphore (tokio::sync::Semaphore): a permit is taken when one is *)
(* available, otherwise the caller is queued; a released permit goes to    *)
(* the head of the queue.                                                  *)
(***************************************************************************)
CanAcquireAlways(p) == TRUE

CanAcquire(p) == p > 0

\* the pc at which a task continues once acquire() has returned its permit
PcAfterAcquire(kind) == IF kind = "listing" THEN "execute_snipe" ELSE "execute_mev"

Resume(task) == [task EXCEPT !.pc = PcAfterAcquire(task.kind), !.holds = TRUE]

\* `let _permit = trade_semaphore.acquire().await?` by `task`, whose record
\* becomes `base` (its other locals updated)
Acquire(task, base) ==
    IF CanAcquire(permits)
    THEN /\ permits' = permits - 1
         /\ waitq' = waitq
         /\ tasks' = Replace(tasks, task, Resume(base))
    ELSE /\ permits' = permits
         /\ waitq' = Append(waitq, [base EXCEPT !.pc = "acquire"])
         /\ tasks' = tasks (-) Bag1(task)

ReleaseNoWake(rest) ==
    /\ permits' = permits + 1
    /\ waitq' = waitq
    /\ tasks' = rest

\* drop of the _permit guard at the end of its block; rest is the bag after
\* the dropping task's own step
Release(rest) ==
    IF waitq = <<>>
    THEN /\ permits' = permits + 1
         /\ waitq' = waitq
         /\ tasks' = rest
    ELSE /\ permits' = permits
         /\ waitq' = Tail(waitq)
         /\ tasks' = rest (+) Bag1(Resume(Head(waitq)))

DropsPermitOnOk(task, outcome) == task.holds /\ outcome = "ok"

\* whether the guard that goes out of scope when a dispatch returns holds a permit
DropsPermit(task, outcome) == task.holds

OnTaskErrorStops(s) == "failed"

\* what an error of a spawned task does to the consumer that spawned it: the
\* task logs it, the callback has long returned Ok(true)
OnTaskError(s) == s

\* the consumers after a step of `task` that raised an error (or not)
Consumers(task, error) ==
    /\ lstream' = IF error /\ task.kind = "listing" THEN OnTaskError(lstream) ELSE lstream
    /\ pstream' = IF error /\ task.kind = "price" THEN OnTaskError(pstream) ELSE pstream

(***************************************************************************)
(* The stream consumers and SniperBot::start                               *)
(***************************************************************************)
Listings == [token_address : Tokens, initial_liquidity : Liquidities]
PriceUpdates == [token_address : {"A"}, volume_1h : Volumes, price_usd : Prices]

ListingCallbackWhenFree(ts, listing) ==
    IF permits > 0 THEN ts (+) Bag1(NewTask("listing", listing)) ELSE ts

\* what the listing callback does with a delivered listing: spawn, return Ok(true)
ListingCallback(ts, listing) == ts (+) Bag1(NewTask("listing", listing))

\* what the price callback does with a delivered update
PriceCallback(ts, update) == ts (+) Bag1(NewTask("price", update))

\* stream.message() yields a listing
ListingMessage(listing) ==
    /\ lstream = "running"
    /\ nread < MaxEvents
    /\ nread' = nread + 1
    /\ tasks' = IF StreamAccepts(listing, cfg.target_tokens)
                THEN ListingCallback(tasks, listing) ELSE tasks
    /\ UNCHANGED <<cfg, permits, waitq, lstream, pstream, startPc, w, unitVars>>

\* stream.message() yields None
ListingStreamEnd ==
    /\ lstream = "running"
    /\ lstream' = "ended"
    /\ UNCHANGED <<cfg, permits, waitq, tasks, pstream, nread, startPc, w, unitVars>>

\* what a read error does to the consumer: `stream.message().await?` returns it
AfterReadError(s) == "failed"

\* stream_new_listings() or stream.message() returns Err
ListingStreamError ==
    /\ lstream = "running"
    /\ lstream' = AfterReadError(lstream)
    /\ UNCHANGED <<cfg, permits, waitq, tasks, pstream, nread, startPc, w, unitVars>>

PriceMessage(update) ==
    /\ pstream = "running"
    /\ nread < MaxEvents
    /\ nread' = nread + 1
    /\ tasks' = PriceCallback(tasks, update)
    /\ UNCHANGED <<cfg, permits, waitq, lstream, pstream, startPc, w, unitVars>>

PriceStreamEnd ==
    /\ pstream = "running"
    /\ pstream' = "ended"
    /\ UNCHANGED <<cfg, permits, waitq, tasks, lstream, nread, startPc, w, unitVars>>

PriceStreamError ==
    /\ pstream = "running"
    /\ pstream' = AfterReadError(pstream)
    /\ UNCHANGED <<cfg, permits, waitq, tasks, lstream, nread, startPc, w, unitVars>>

Terminated(s) == s \in {"ended", "failed"}

\* tokio::select! over the three join handles: the first one to complete wins
\* (the trade monitor loops forever)
SelectReady(ls, ps) == Terminated(ls) \/ Terminated(ps)

StartReturn ==
    /\ startPc = "running"
    /\ SelectReady(lstream, pstream)
    /\ startPc' = "returned"
    /\ UNCHANGED <<cfg, permits, waitq, tasks, lstream, pstream, nread, w, unitVars>>

(***************************************************************************)
(* process_new_listing and process_price_update                            *)
(***************************************************************************)
ListingGateLow(signal) == signal.priority >= Low

ListingGate(signal) == signal.priority >= High

PriceGateLow(signal) == signal.priority >= Low

PriceGate(signal) == signal.priority >= Medium

\* process_new_listing up to and including the acquire of the snipe block
ProcessNewListingBegin(task) ==
    /\ task.kind = "listing"
    /\ task.pc = "spawned"
    /\ IF ShouldSnipeToken(task.ev, cfg)
       THEN Acquire(task, task)
       ELSE /\ tasks' = Replace(tasks, task, [task EXCEPT !.pc = "analyze"])
            /\ UNCHANGED <<permits, waitq>>
    /\ UNCHANGED <<cfg, lstream, pstream, nread, startPc, w, unitVars>>

PcAfterSnipePropagating(outcome) == IF outcome = "err" THEN "failed" ELSE "analyze"

\* `if let Err(e) = Self::execute_snipe(..).await { error!(..) }`: on both
\* outcomes process_new_listing goes on to the MEV analysis
PcAfterSnipe(outcome) == "analyze"

\* execute_snipe / execute_mev_strategy returns (Ok or Err, the error is
\* logged by the caller) and the block that called it ends.  For the signal
\* of a price update the return is Err: its pool_address is the empty string
\* (mev_detector.rs 250, 282), which create_buy_transaction does not parse.
DispatchReturn(task, outcome) ==
    /\ task.pc \in {"execute_snipe", "execute_mev"}
    /\ task.pc = "execute_mev" /\ task.kind = "price" => outcome = "err"
    /\ LET rest == IF task.pc = "execute_snipe"
                   THEN Replace(tasks, task,
                                [task EXCEPT !.pc = PcAfterSnipe(outcome), !.holds = FALSE,
                                             !.snipe = outcome])
                   ELSE Retire(tasks, task)
       IN  IF DropsPermit(task, outcome)
           THEN Release(rest)
           ELSE /\ tasks' = rest
                /\ UNCHANGED <<permits, waitq>>
    /\ Consumers(task, outcome = "err")
    /\ UNCHANGED <<cfg, nread, startPc, w, unitVars>>

\* process_new_listing after the snipe block: the MEV analysis and its gate;
\* err: analyze_opportunities returns Err (SystemTime before UNIX_EPOCH while
\* an opportunity is built) and `?` ends the task
ProcessNewListingMev(task, r1, r2, err) ==
    /\ task.kind = "listing"
    /\ task.pc = "analyze"
    /\ \E signal \in {AnalyzeNewListing(task.ev, cfg, r1, r2)} :
           IF ~cfg.enable_mev
           THEN /\ ~err
                /\ tasks' = Retire(tasks, task)
           ELSE IF err
           THEN /\ signal # NoSignal
                /\ tasks' = Retire(tasks, task)
           ELSE IF signal # NoSignal /\ ListingGate(signal)
           THEN tasks' = Replace(tasks, task,
                            [task EXCEPT !.pc = "execute_mev", !.signal = signal])
           ELSE tasks' = Retire(tasks, task)
    /\ Consumers(task, err)
    /\ UNCHANGED <<cfg, permits, waitq, nread, startPc, w, unitVars>>

\* process_price_update up to and including the acquire inside the loop
ProcessPriceUpdate(task, r1, err) ==
    /\ task.kind = "price"
    /\ task.pc = "spawned"
    /\ \E signal \in {AnalyzePriceUpdate(task.ev, cfg, r1)} :
           IF ~cfg.enable_mev
           THEN /\ ~err
                /\ tasks' = Retire(tasks, task)
                /\ UNCHANGED <<permits, waitq>>
           ELSE IF err
           THEN /\ signal # NoSignal
                /\ tasks' = Retire(tasks, task)
                /\ UNCHANGED <<permits, waitq>>
           ELSE IF signal # NoSignal /\ PriceGate(signal)
           THEN Acquire(task, [task EXCEPT !.signal = signal])
           ELSE /\ tasks' = Retire(tasks, task)
                /\ UNCHANGED <<permits, waitq>>
    /\ Consumers(task, err)
    /\ UNCHANGED <<cfg, nread, startPc, w, unitVars>>

(***************************************************************************)
(* The pipeline                                                            *)
(***************************************************************************)
HistoryTokens == {"A", "B"}

\* a detector as constructed: no history
NoHistory == [t \in HistoryTokens |-> <<>>]
NoPushes == [t \in HistoryTokens |-> 0]

NoCall == [op |-> "none"]

\* a manager as constructed: nothing tracked, no submit made
IdleManager ==
    [backend |-> "none", pending |-> {}, now |-> 0, timeout |-> 0,
     pc |-> "idle", calls |-> 0, spawned |-> 0, last |-> "none", ticks |-> 0,
     active_trades |-> {}, swept |-> {},
     jito_manager |-> FALSE, nozomi_manager |-> FALSE, awaiting |-> 0]

\* the components outside the pipeline, not in use
UnitsIdle ==
    /\ statusLog = <<>>
    /\ manager = IdleManager
    /\ price_history = NoHistory
    /\ pushed = NoPushes
    /\ call = NoCall

IdleWait == [pc |-> "idle", backend |-> "none", timeout |-> 0, start_time |-> 0,
             now |-> 0, polls |-> 0, obs |-> <<>>, result |-> "none", set_back |-> 0]

Configs ==
    [max_concurrent_trades : 1..MaxCapacity,
     enable_mev : BOOLEAN,
     target_tokens : {{}, {"A"}},
     mev_strategies : {{"arbitrage", "frontrun", "sandwich", "backrun"}},
     min_liquidity : {MinLiquidity}]

Init ==
    /\ cfg \in Configs
    /\ permits = cfg.max_concurrent_trades
    /\ waitq = <<>>
    /\ tasks = EmptyBag
    /\ lstream = "running"
    /\ pstream = "running"
    /\ nread = 0
    /\ startPc = "running"
    /\ w = IdleWait
    /\ UnitsIdle

Next ==
    \/ \E listing \in Listings : ListingMessage(listing)
    \/ ListingStreamEnd
    \/ ListingStreamError
    \/ \E update \in PriceUpdates : PriceMessage(update)
    \/ PriceStreamEnd
    \/ PriceStreamError
    \/ StartReturn
    \/ \E task \in Running : ProcessNewListingBegin(task)
    \/ \E task \in Running, outcome \in {"ok", "err"} : DispatchReturn(task, outcome)
    \/ \E task \in Running, r1 \in RandomSamples, r2 \in RandomSamples, err \in BOOLEAN :
          ProcessNewListingMev(task, r1, r2, err)
    \/ \E task \in Running, r1 \in RandomSamples, err \in BOOLEAN :
          ProcessPriceUpdate(task, r1, err)

Spec == Init /\ [][Next]_vars

(***************************************************************************)
(* jito_client.rs / nozomi_client.rs: the confirmation wait                *)
(*   JitoClient::wait_for_bundle_confirmation                              *)
(*   NozomiClient::wait_for_confirmation                                   *)
(* w.now is SystemTime::now() in ticks of 50 ms.  A poll or a sleep takes   *)
(* d ticks, and the system clock may be set back while it lasts (adj < 0);  *)
(* w.set_back counts these adjustments.  SpecWait is the wait on a clock    *)
(* that is not adjusted, SpecWaitClock the wait on one that may be.         *)
(***************************************************************************)
Backends == {"jito", "nozomi"}

\* what one status poll can yield: JitoClient::get_bundle_status draws one
\* of the three BundleStatus values and never fails; the relay's
\* get_submission_status yields a status string or an error
PollOutcomes(backend) ==
    IF backend = "jito" THEN {"pending", "confirmed", "failed"}
    ELSE {"pending", "confirmed", "failed", "unknown", "error"}

\* ticks one status poll takes: Jito's sleeps 50 ms first, the relay's is a request
PollDelays(backend) ==
    IF backend = "jito" THEN {PollTicks, PollTicks + 1} ELSE {0, 1}

\* tokio::time::sleep(100 ms) lasts at least that long
SleepDelays == {SleepTicks, SleepTicks + 1}

MaxClockSteps == 1    \* adjustments of the system clock during one wait

\* by how much SystemTime is set back at an adjustment, in ticks: by the
\* length of a sleep, or to before every start_time
ClockAdjustments == {-SleepTicks, -(MaxTimeout + 2 * SleepTicks + PollTicks + 2)}

\* SystemTime::now() after an operation that took d ticks during which the
\* clock was adjusted by adj
ClockAfter(wt, d, adj) ==
    [wt EXCEPT !.now = @ + d + adj,
               !.set_back = IF adj = 0 THEN @ ELSE @ + 1]

\* start_time.elapsed(): Err when the clock is behind start_time
Elapsed(wt) == IF wt.now < wt.start_time THEN -1 ELSE wt.now - wt.start_time

\* the loop condition `start_time.elapsed()? < timeout`
LoopContinues(elapsed, timeout) == elapsed < timeout

OnStatusFailedIgnored(status) ==
    IF status = "confirmed" THEN "true" ELSE "none"

OnStatusErrorAborts(status) ==
    IF status = "confirmed" THEN "true"
    ELSE IF status \in {"failed", "error"} THEN "false"
    ELSE "none"


\* a status string the match does not know ends the wait
OnStatusUnknownFails(status) ==
    IF status = "confirmed" THEN "true"
    ELSE IF status \in {"failed", "unknown"} THEN "false"
    ELSE "none"

\* the match on a poll's outcome: the result returned, "none" to go on
OnStatus(status) ==
    IF status = "confirmed" THEN "true"
    ELSE IF status = "failed" THEN "false"
    ELSE "none"

NewWait(backend, timeout) ==
    [pc |-> "check", backend |-> backend, timeout |-> timeout, start_time |-> 0,
     now |-> 0, polls |-> 0, obs |-> <<>>, result |-> "none", set_back |-> 0]

\* the head of the while loop
WaitCheck ==
    /\ w.pc = "check"
    /\ w' = IF Elapsed(w) < 0
            THEN [w EXCEPT !.pc = "done", !.result = "err"]
            ELSE IF LoopContinues(Elapsed(w), w.timeout)
            THEN [w EXCEPT !.pc = "poll"]
            ELSE [w EXCEPT !.pc = "done", !.result = "false"]
    /\ UNCHANGED <<pipeVars, unitVars>>

\* one status poll and the match on its outcome
WaitPoll(status, d, adj) ==
    /\ w.pc = "poll"
    /\ status \in PollOutcomes(w.backend)
    /\ d \in PollDelays(w.backend)
    /\ adj # 0 => w.set_back < MaxClockSteps
    /\ w' = [ClockAfter(w, d, adj) EXCEPT
                !.polls = @ + 1,
                !.obs = Append(@, status),
                !.result = OnStatus(status),
                !.pc = IF OnStatus(status) = "none" THEN "sleep" ELSE "done"]
    /\ UNCHANGED <<pipeVars, unitVars>>

\* the sleep before the next check
WaitSleep(d, adj) ==
    /\ w.pc = "sleep"
    /\ adj # 0 => w.set_back < MaxClockSteps
    /\ w' = [ClockAfter(w, d, adj) EXCEPT !.pc = "check"]
    /\ UNCHANGED <<pipeVars, unitVars>>

DefaultConfig ==
    [max_concurrent_trades |-> 5, enable_mev |-> TRUE, target_tokens |-> {},
     mev_strategies |-> {"arbitrage", "frontrun"},
     min_liquidity |-> MinLiquidity]

InitWait ==
    /\ cfg = DefaultConfig
    /\ permits = cfg.max_concurrent_trades
    /\ waitq = <<>>
    /\ tasks = EmptyBag
    /\ lstream = "running"
    /\ pstream = "running"
    /\ nread = 0
    /\ startPc = "running"
    /\ \E backend \in Backends, timeout \in 0..MaxTimeout : w = NewWait(backend, timeout)
    /\ UnitsIdle

\* the wait while the system clock is not adjusted
NextWait ==
    \/ WaitCheck
    \/ \E status \in {"pending", "confirmed", "failed", "unknown", "error"}, d \in 0..(PollTicks + 1) :
          WaitPoll(status, d, 0)
    \/ \E d \in SleepDelays : WaitSleep(d, 0)

\* the spawned wait is scheduled by the runtime, its polls and sleeps return
SpecWait == InitWait /\ [][NextWait]_vars /\ WF_vars(NextWait)

\* the wait while the system clock may be set back (NTP, an operator)
NextWaitClock ==
    \/ WaitCheck
    \/ \E status \in {"pending", "confirmed", "failed", "unknown", "error"}, d \in 0..(PollTicks + 1),
          adj \in ClockAdjustments \cup {0} :
          WaitPoll(status, d, adj)
    \/ \E d \in SleepDelays, adj \in ClockAdjustments \cup {0} : WaitSleep(d, adj)

SpecWaitClock == InitWait /\ [][NextWaitClock]_vars /\ WF_vars(NextWaitClock)

(***************************************************************************)
(* jito_client.rs: repeated status queries for one bundle id               *)
(*   JitoClient::get_bundle_status                                         *)
(***************************************************************************)
MaxQueries == 4       \* status queries made for the bundle id

\* one call of get_bundle_status(bundle_id): the status is drawn afresh by
\* rng.gen_range(0..3) on every call, whatever the calls before returned
GetBundleStatus(status) ==
    /\ Len(statusLog) < MaxQueries
    /\ status \in PollOutcomes("jito")
    /\ statusLog' = Append(statusLog, status)
    /\ UNCHANGED <<pipeVars, w, manager, price_history, pushed, call>>

\* the pipeline as constructed with the default configuration, not started
PipelineIdle ==
    /\ cfg = DefaultConfig
    /\ permits = cfg.max_concurrent_trades
    /\ waitq = <<>>
    /\ tasks = EmptyBag
    /\ lstream = "running"
    /\ pstream = "running"
    /\ nread = 0
    /\ startPc = "running"

InitStatus ==
    /\ PipelineIdle
    /\ w = IdleWait
    /\ UnitsIdle

NextStatus ==
    \E status \in {"pending", "confirmed", "failed"} : GetBundleStatus(status)

SpecStatus == InitStatus /\ [][NextStatus]_vars

(***************************************************************************)
(* jito_client.rs / nozomi_client.rs: the managers' submit operation       *)
(*   BundleManager::submit_transaction_bundle                              *)
(*   NozomiManager::submit_transaction, submit_transaction_batch           *)
(* `w` follows the confirmation wait of the first accepted submission;     *)
(* the waits of later submissions are counted in manager.spawned.          *)
(***************************************************************************)
MaxSubmits == 2       \* submit calls made on the manager

SubmitOutcomes == {"ok", "create_err", "submit_err"}

\* whether a submit call with this outcome leaves a record in the tracker: the
\* bundle manager inserts before submit_bundle, the relay manager after its
\* client's submit has succeeded
Tracks(backend, outcome) ==
    \/ outcome = "ok"
    \/ backend = "jito" /\ outcome = "submit_err"

\* pending_bundles.insert / pending_submissions.insert, created_at = now:
\* HashMap::insert replaces the record already stored under the id
TrackSubmission(pending, id, now) ==
    {record \in pending : record.id # id} \cup {[id |-> id, created_at |-> now]}

\* the task started by tokio::spawn for the confirmation wait
SpawnWait(backend, timeout) == NewWait(backend, timeout)

PcAfterSpawnJoined(wt) == IF wt.pc = "done" THEN "returned" ELSE "joining"

\* where the submit call is once the wait is spawned: the JoinHandle is
\* dropped, the next statement is Ok(submission_id)
PcAfterSpawn(wt) == "returned"

\* The submit operation is suspended at each of its awaits; manager.pc is the
\* await it is at: "create" (create_bundle, bundle manager only), "submit"
\* (send_bundle, or the relay client's submit), "config" (config.read()).

\* the dispatcher calls submit_transaction_bundle / submit_transaction /
\* submit_transaction_batch
ManagerSubmit ==
    /\ manager.pc = "idle"
    /\ manager.backend \in Backends
    /\ manager.calls < MaxSubmits
    /\ manager' = [manager EXCEPT
          !.calls = @ + 1,
          !.pc = IF manager.backend = "jito" THEN "create" ELSE "submit"]
    /\ UNCHANGED <<pipeVars, w, statusLog, price_history, pushed, call>>

\* `create_bundle(..).await?` returns: on Ok the bundle is inserted under its
\* bundle_id in the same poll, on Err the call returns
BundleCreated(outcome) ==
    /\ manager.pc = "create"
    /\ manager' = IF outcome = "ok"
                  THEN [manager EXCEPT
                          !.pending = TrackSubmission(@, manager.calls, manager.now),
                          !.pc = "submit"]
                  ELSE [manager EXCEPT !.last = "err", !.pc = "returned"]
    /\ UNCHANGED <<pipeVars, w, statusLog, price_history, pushed, call>>

\* `submit_bundle(..).await?` / `client.submit_transaction(..).await?`
\* returns.  The relay manager inserts its record now, unless reading the
\* clock for created_at fails ("clock_err"); an Err leaves the call
ServiceAnswers(outcome) ==
    /\ manager.pc = "submit"
    /\ outcome = "clock_err" => manager.backend = "nozomi"
    /\ manager' = IF outcome = "ok"
                  THEN [manager EXCEPT
                          !.pending = IF manager.backend = "nozomi"
                                      THEN TrackSubmission(@, manager.calls, manager.now)
                                      ELSE @,
                          !.pc = "config"]
                  ELSE [manager EXCEPT !.last = "err", !.pc = "returned"]
    /\ UNCHANGED <<pipeVars, w, statusLog, price_history, pushed, call>>

\* `config.read().await` is granted: the timeout is read, the guard dropped,
\* the wait spawned and Ok(id) returned
WaitSpawned ==
    /\ manager.pc = "config"
    /\ w' = IF w.pc = "idle" THEN SpawnWait(manager.backend, manager.timeout) ELSE w
    /\ manager' = [manager EXCEPT
          !.spawned = @ + 1,
          !.last = "ok",
          !.pc = PcAfterSpawn(w')]
    /\ UNCHANGED <<pipeVars, statusLog, price_history, pushed, call>>

\* the dispatcher (execute_snipe / execute_mev_strategy) logs the id or
\* propagates the error and returns; its manager can be called again
DispatcherReturn ==
    /\ manager.pc = "returned"
    /\ manager' = [manager EXCEPT !.pc = "idle"]
    /\ UNCHANGED <<pipeVars, w, statusLog, price_history, pushed, call>>

InitSubmit ==
    /\ PipelineIdle
    /\ w = IdleWait
    /\ statusLog = <<>>
    /\ price_history = NoHistory
    /\ pushed = NoPushes
    /\ call = NoCall
    /\ \E backend \in Backends, timeout \in 1..MaxTimeout :
          manager = [IdleManager EXCEPT !.backend = backend, !.timeout = timeout]

NextSubmit ==
    \/ ManagerSubmit
    \/ \E outcome \in {"ok", "err"} : BundleCreated(outcome)
    \/ \E outcome \in {"ok", "err", "clock_err"} : ServiceAnswers(outcome)
    \/ WaitSpawned
    \/ DispatcherReturn
    \/ WaitCheck
    \/ \E status \in {"pending", "confirmed", "failed", "unknown", "error"}, d \in 0..(PollTicks + 1) :
          WaitPoll(status, d, 0)
    \/ \E d \in SleepDelays : WaitSleep(d, 0)

SpecSubmit == InitSubmit /\ [][NextSubmit]_vars

(***************************************************************************)
(* mev_detector.rs: the price history                                      *)
(*   MEVDetector::update_price_history                                     *)
(* A price point is named by its arrival number within its token.          *)
(***************************************************************************)
HistoryCap == 1000    \* "Keep only last 1000 price points per token"
MaxPoints == 1002     \* points appended to token "A"
MaxOtherPoints == 2   \* points appended to token "B"
MaxBatch == 2         \* length of the slice one call is given

PushLimit(t) == IF t = "A" THEN MaxPoints ELSE MaxOtherPoints

KeepOldest(history) ==
    IF Len(history) > HistoryCap THEN SubSeq(history, 1, HistoryCap) ELSE history

\* if history.len() > 1000 { history.drain(0..history.len() - 1000) }
TrimHistory(history) ==
    IF Len(history) > HistoryCap
    THEN SubSeq(history, Len(history) - HistoryCap + 1, Len(history))
    ELSE history

\* the first loop: every update of the slice is pushed onto its token's
\* history; st = [h |-> histories, n |-> points appended per token]
RECURSIVE PushAll(_, _)
PushAll(st, batch) ==
    IF batch = <<>> THEN st
    ELSE LET t == Head(batch)
         IN  PushAll([h |-> [st.h EXCEPT ![t] = Append(@, st.n[t] + 1)],
                      n |-> [st.n EXCEPT ![t] = @ + 1]],
                     Tail(batch))

Batches == UNION {[1..k -> HistoryTokens] : k \in 0..MaxBatch}

Occurrences(batch, t) == Cardinality({i \in 1..Len(batch) : batch[i] = t})

\* update_price_history(price_updates) on st = [h, n]: push all, then trim
\* every history
UpdatedHistory(st, batch) ==
    LET after == PushAll(st, batch)
    IN  [h |-> [t \in HistoryTokens |-> TrimHistory(after.h[t])], n |-> after.n]

UpdatePriceHistory(batch) ==
    /\ \A t \in HistoryTokens : pushed[t] + Occurrences(batch, t) <= PushLimit(t)
    /\ LET st == UpdatedHistory([h |-> price_history, n |-> pushed], batch)
       IN  /\ price_history' = st.h
           /\ pushed' = st.n
    /\ UNCHANGED <<pipeVars, w, statusLog, manager, call>>

InitHistory ==
    /\ PipelineIdle
    /\ w = IdleWait
    /\ UnitsIdle

NextHistory == \E batch \in Batches : UpdatePriceHistory(batch)

SpecHistory == InitHistory /\ [][NextHistory]_vars

(***************************************************************************)
(* Single calls of the detector's and the sniper's functions, on inputs    *)
(* drawn from bounded sets; `call` records the input and the result.       *)
(***************************************************************************)
\* expected_profit in 1e-4 SOL: 0.1 to 3.2 SOL, on and next to the thresholds,
\* and the profits whose product with the scores below is a threshold in
\* exact arithmetic and not on f64 (3.0 * 0.2 is 0.6000000000000001,
\* 3.125 * 0.8 * (1.0 - 0.84) is 0.39999999999999997)
Profits == {Amount(n) : n \in {1000, 4000, 4001, 6000, 6001, 7500, 8000, 8001, 12000,
                               16000, 16001, 24000, 25000, 30000, 31250, 32000}}
Confidences == {20, 50, 80, 100}      \* confidence_score
Risks == {0, 20, 50, 84}              \* risk_score

\* calculate_priority(&opportunity)
CallCalculatePriority(profit, confidence, risk) ==
    /\ call = NoCall
    /\ call' = [op |-> "calculate_priority", profit |-> profit,
                confidence |-> confidence, risk |-> risk,
                result |-> CalculatePriority(profit, confidence, risk)]
    /\ UNCHANGED <<pipeVars, w, statusLog, manager, price_history, pushed>>

MaxSignals == 3       \* signals collected in one analyze_opportunities cycle

\* signals as analyze_opportunities may hold them before the sort
SignalSamples ==
    [strategy : {"frontrun", "backrun"},
     priority : {Low, High, Critical},
     expected_profit : {Amount(1000), Amount(1001)}]

SignalLists == UNION {[1..k -> SignalSamples] : k \in 0..MaxSignals}

SortsBeforeByProfit(a, b) == Greater(a.expected_profit, b.expected_profit)

\* the comparator of signals.sort_by yields Less for (a, b):
\* b.priority.cmp(&a.priority).then(b.expected_profit.partial_cmp(&a.expected_profit))
SortsBefore(a, b) ==
    \/ a.priority > b.priority
    \/ a.priority = b.priority /\ Greater(a.expected_profit, b.expected_profit)

\* slice::sort_by is stable: x goes in front of the first element it sorts
\* before, behind everything it compares equal to
RECURSIVE InsertSignal(_, _)
InsertSignal(sorted, x) ==
    IF sorted = <<>> THEN <<x>>
    ELSE IF SortsBefore(x, Head(sorted)) THEN <<x>> \o sorted
    ELSE <<Head(sorted)>> \o InsertSignal(Tail(sorted), x)

RECURSIVE SortSignals(_)
SortSignals(signals) ==
    IF signals = <<>> THEN <<>>
    ELSE InsertSignal(SortSignals(SubSeq(signals, 1, Len(signals) - 1)),
                      signals[Len(signals)])

\* the end of analyze_opportunities: sort the collected signals, return them
CallSortSignals(signals) ==
    /\ call = NoCall
    /\ call' = [op |-> "sort_signals", signals |-> signals,
                result |-> SortSignals(signals)]
    /\ UNCHANGED <<pipeVars, w, statusLog, manager, price_history, pushed>>

\* listings and configurations for single calls: liquidity on both sides
\* of and exactly at the minimum, every target list, every set of the
\* listing strategies, two minimums (10 and 50 SOL)
CallListings ==
    [token_address : Tokens, initial_liquidity : {5000, 9999, 10000, 49999, 100000}]

CallConfigs ==
    {[DefaultConfig EXCEPT !.target_tokens = t, !.mev_strategies = s,
                           !.min_liquidity = m] :
        t \in SUBSET Tokens, s \in SUBSET {"frontrun", "arbitrage"},
        m \in {MinLiquidity, 50000}}

\* should_snipe_token(&listing, &config); process_new_listing calls
\* execute_snipe exactly when it returns true
CallShouldSnipeToken(listing, c) ==
    /\ call = NoCall
    /\ call' = [op |-> "should_snipe_token", listing |-> listing, config |-> c,
                result |-> ShouldSnipeToken(listing, c)]
    /\ UNCHANGED <<pipeVars, w, statusLog, manager, price_history, pushed>>

\* analyze_new_listing(&listing)
CallAnalyzeNewListing(listing, c, r1, r2) ==
    /\ call = NoCall
    /\ call' = [op |-> "analyze_new_listing", listing |-> listing, config |-> c,
                r1 |-> r1, r2 |-> r2,
                result |-> AnalyzeNewListing(listing, c, r1, r2)]
    /\ UNCHANGED <<pipeVars, w, statusLog, manager, price_history, pushed>>

\* what analyze_opportunities hands to the loop of process_new_listing or
\* process_price_update: one event gives at most one signal, of any priority
\* of the MEVPriority type
GateSamples(kind) ==
    [strategy : IF kind = "listing" THEN {"frontrun", "arbitrage"}
                ELSE {"sandwich", "backrun"},
     priority : Low..Critical,
     expected_profit : {Amount(1000)}]

Opportunities(kind) == {<<>>} \cup {<<s>> : s \in GateSamples(kind)}

Gate(kind, signal) ==
    IF kind = "listing" THEN ListingGate(signal) ELSE PriceGate(signal)

\* `for signal in opportunities { if signal.priority >= .. { execute_mev_strategy } }`:
\* the signals execute_mev_strategy is called for
RECURSIVE ExecutedSignals(_, _)
ExecutedSignals(kind, signals) ==
    IF signals = <<>> THEN <<>>
    ELSE (IF Gate(kind, Head(signals)) THEN <<Head(signals)>> ELSE <<>>)
         \o ExecutedSignals(kind, Tail(signals))

CallDispatchSignals(kind, signals) ==
    /\ call = NoCall
    /\ call' = [op |-> "dispatch_signals", kind |-> kind, signals |-> signals,
                result |-> ExecutedSignals(kind, signals)]
    /\ UNCHANGED <<pipeVars, w, statusLog, manager, price_history, pushed>>

MaxListings == 2      \* listings given to one analyze_opportunities call

\* the events of one analyze_opportunities call, each with the random
\* factors its detectors draw and whether SystemTime::now().duration_since(
\* UNIX_EPOCH)? fails while its opportunity is built
ListingEvents ==
    [ev : [token_address : {"A"}, initial_liquidity : {10001, 40000, 40001, 100000}],
     r1 : RandomSamples, r2 : {0}, fails : BOOLEAN]

PriceEvents ==
    [ev : PriceUpdates, r1 : {999}, fails : BOOLEAN]

ListingBatches == UNION {[1..k -> ListingEvents] : k \in 0..MaxListings}
PriceBatches == {<<>>} \cup {<<e>> : e \in PriceEvents}

AllStrategies == {"arbitrage", "frontrun", "backrun", "sandwich", "liquidation"}
BatchConfigs == {DefaultConfig, [DefaultConfig EXCEPT !.mev_strategies = AllStrategies]}

Failed == [status |-> "err", signals |-> <<>>]

\* `if let Some(signal) = ..await? { signals.push(signal) }`: the signal of
\* the event is pushed; fails says that building it returns Err, which
\* leaves analyze_opportunities
PushSignal(collected, signal, fails) ==
    IF signal = NoSignal THEN collected
    ELSE IF fails THEN Failed
    ELSE [collected EXCEPT !.signals = Append(@, signal)]

\* the loop over the listings, from what the call has collected so far
RECURSIVE CollectListings(_, _, _)
CollectListings(events, c, collected) ==
    IF collected.status = "err" \/ events = <<>> THEN collected
    ELSE CollectListings(Tail(events), c,
             PushSignal(collected,
                        AnalyzeNewListing(Head(events).ev, c, Head(events).r1,
                                          Head(events).r2),
                        Head(events).fails))

\* the same loop over the price updates
RECURSIVE CollectPrices(_, _, _)
CollectPrices(events, c, collected) ==
    IF collected.status = "err" \/ events = <<>> THEN collected
    ELSE CollectPrices(Tail(events), c,
             PushSignal(collected,
                        AnalyzePriceUpdate(Head(events).ev, c, Head(events).r1),
                        Head(events).fails))

OpportunityRetention == 300   \* `current_time - 300`

\* the clock readings of cleanup_old_opportunities, in seconds since the
\* epoch (negative: before it), and whether the build checks overflow
CleanupRuns ==
    {[now |-> 1000, overflow_checks |-> FALSE], [now |-> 100, overflow_checks |-> FALSE],
     [now |-> 100, overflow_checks |-> TRUE], [now |-> 0 - 1, overflow_checks |-> FALSE]}

\* cleanup_old_opportunities: duration_since(UNIX_EPOCH).unwrap() panics on a
\* clock before the epoch, `current_time - 300` overflows on a clock below
\* 300 s; nothing inserts into active_opportunities, so its retain removes
\* nothing
CleanupOldOpportunities(run) ==
    IF run.now < 0 THEN "panic"
    ELSE IF run.overflow_checks /\ SubOverflows(run.now, OpportunityRetention) THEN "panic"
    ELSE "ok"

\* analyze_opportunities(&listings, &price_updates) on a detector whose
\* histories are st: update_price_history first, then the two loops, then
\* cleanup_old_opportunities and the sort; the histories keep the points of
\* the batch also when the call fails
\* the end of analyze_opportunities, after the two loops
Analyzed(collected, history, run) ==
    IF collected.status = "err"
    THEN [status |-> "err", signals |-> <<>>, history |-> history]
    ELSE IF CleanupOldOpportunities(run) = "panic"
    THEN [status |-> "panic", signals |-> <<>>, history |-> history]
    ELSE [status |-> "ok", signals |-> SortSignals(collected.signals), history |-> history]

AnalyzeOpportunities(listings, updates, c, st, run) ==
    Analyzed(CollectPrices(updates, c,
                 CollectListings(listings, c, [status |-> "ok", signals |-> <<>>])),
             UpdatedHistory(st, [i \in 1..Len(updates) |-> updates[i].ev.token_address]),
             run)

CallAnalyzeOpportunities(listings, updates, c, run) ==
    /\ call = NoCall
    /\ \E result \in {AnalyzeOpportunities(listings, updates, c,
                                            [h |-> price_history, n |-> pushed], run)} :
           /\ call' = [op |-> "analyze_opportunities", listings |-> listings,
                       updates |-> updates, config |-> c, run |-> run,
                       result |-> [status |-> result.status, signals |-> result.signals]]
           /\ price_history' = result.history.h
           /\ pushed' = result.history.n
    /\ UNCHANGED <<pipeVars, w, statusLog, manager>>

\* price updates as update_price_history reads them: token and timestamp; a
\* stored point is named by its timestamp
Timestamps == {1, 2, 3}
TimedUpdates == [token_address : HistoryTokens, timestamp : Timestamps]
TimedBatches == UNION {[1..k -> TimedUpdates] : k \in 0..MaxBatch}

\* histories found by a call: up to two points stored for token "A"
StoredHistories ==
    {[t \in HistoryTokens |-> IF t = "A" THEN h ELSE <<>>] :
        h \in UNION {[1..k -> Timestamps] : k \in 0..2}}

PushPointIfNewer(history, update) ==
    IF history # <<>> /\ update.timestamp < history[Len(history)]
    THEN history
    ELSE Append(history, update.timestamp)

\* price_history.entry(token).or_insert_with(Vec::new).push(price_point)
PushPoint(history, update) == Append(history, update.timestamp)

RECURSIVE PushPoints(_, _)
PushPoints(histories, updates) ==
    IF updates = <<>> THEN histories
    ELSE PushPoints([histories EXCEPT ![Head(updates).token_address] =
                         PushPoint(@, Head(updates))],
                    Tail(updates))

\* update_price_history(price_updates) on timestamped points
CallUpdatePriceHistory(histories, updates) ==
    /\ call = NoCall
    /\ call' = [op |-> "update_price_history", histories |-> histories,
                updates |-> updates,
                result |-> [t \in HistoryTokens |->
                               TrimHistory(PushPoints(histories, updates)[t])]]
    /\ UNCHANGED <<pipeVars, w, statusLog, manager, price_history, pushed>>

InitCalls ==
    /\ PipelineIdle
    /\ w = IdleWait
    /\ UnitsIdle


\* mev_detector.rs create_*_execution_plan.  A configuration gives
\* max_slippage in whole percent; the plans hold the f64 values.
SlippageSamples == {1, 3, 5, 100}          \* 5 % is the default
GasPriceSamples == {1, 1000000}            \* 1000000 is the default
PlanConfigs == [max_slippage : SlippageSamples, max_gas_price : GasPriceSamples]

\* config_guard.max_slippage
ConfiguredSlippage(c) == F64FromInt(c.max_slippage)

Directives(amount, duration_ms, max_slippage) ==
    << [kind |-> "MaxGasPrice", amount |-> amount],
       [kind |-> "Timeout", duration_ms |-> duration_ms],
       [kind |-> "SlippageProtection", max_slippage |-> max_slippage] >>

CreateFrontrunExecutionPlan(c) ==
    [max_slippage |-> ConfiguredSlippage(c),
     risk_mitigation |-> Directives(c.max_gas_price, 5000, ConfiguredSlippage(c))]

CreateArbitrageExecutionPlan(c) ==
    [max_slippage |-> ConfiguredSlippage(c),
     risk_mitigation |->
         Directives(c.max_gas_price, 10000, F64Mul(ConfiguredSlippage(c), F64FromRatio(1, 2)))]

CreateSandwichExecutionPlan(c) ==
    [max_slippage |-> ConfiguredSlippage(c),
     risk_mitigation |->
         Directives(c.max_gas_price * 2, 3000, F64Mul(ConfiguredSlippage(c), F64FromInt(2)))]

CreateBackrunExecutionPlan(c) ==
    [max_slippage |-> ConfiguredSlippage(c),
     risk_mitigation |-> Directives(c.max_gas_price, 8000, ConfiguredSlippage(c))]

\* the strategies a detector builds an opportunity and a plan for
PlannedStrategies == {"frontrun", "arbitrage", "sandwich", "backrun"}

CreateExecutionPlan(strategy, c) ==
    CASE strategy = "frontrun" -> CreateFrontrunExecutionPlan(c)
      [] strategy = "arbitrage" -> CreateArbitrageExecutionPlan(c)
      [] strategy = "sandwich" -> CreateSandwichExecutionPlan(c)
      [] strategy = "backrun" -> CreateBackrunExecutionPlan(c)

\* create_mev_transactions hands `signal.execution_plan.max_slippage` to
\* create_buy_transaction, whatever the strategy
BuySlippage(plan) == plan.max_slippage

CallCreateExecutionPlan(strategy, c) ==
    /\ call = NoCall
    /\ call' = [op |-> "create_execution_plan", strategy |-> strategy, config |-> c,
                result |-> CreateExecutionPlan(strategy, c),
                buy_slippage |-> BuySlippage(CreateExecutionPlan(strategy, c))]
    /\ UNCHANGED <<pipeVars, w, statusLog, manager, price_history, pushed>>


\* jito_client.rs JitoClient::create_bundle.  An input transaction is
\* [kind |-> "tx", id]; the tip transfer built by create_tip_transaction is
\* [kind |-> "tip", lamports, blockhash].  rpc[i] is what the RPC node
\* answers during round i of the loop: the fee calculate_priority_fee
\* returns and the blockhash get_latest_blockhash returns, or an error.
MaxBundleTxs == 2     \* transactions handed to create_bundle

TxIds == {1, 2}
TipAmounts == {0, 10000}                   \* 10000 is the default jito_tip_amount
RpcOutcomes ==
    [fee_ok : {TRUE}, fee : {100000, 250000}, blockhash_ok : {TRUE}, blockhash : {1, 2}]
    \cup {[fee_ok |-> FALSE, fee |-> 0, blockhash_ok |-> TRUE, blockhash |-> 1],
          [fee_ok |-> TRUE, fee |-> 100000, blockhash_ok |-> FALSE, blockhash |-> 0]}

\* create_tip_transaction: a transfer of tip_amount to the tip account
CreateTipTransaction(tip_amount, blockhash) ==
    [kind |-> "tip", lamports |-> tip_amount, blockhash |-> blockhash]

\* the two pushes of one round, the tip entry pushed first
BundleEntriesTipFirst(transaction, priority_fee, tip_transaction, tip_amount) ==
    << [transaction |-> tip_transaction, priority_fee |-> 0, tip_amount |-> 0],
       [transaction |-> transaction, priority_fee |-> priority_fee,
        tip_amount |-> tip_amount] >>

\* the two pushes of one round of the loop
BundleEntries(transaction, priority_fee, tip_transaction, tip_amount) ==
    << [transaction |-> transaction, priority_fee |-> priority_fee,
        tip_amount |-> tip_amount],
       [transaction |-> tip_transaction, priority_fee |-> 0, tip_amount |-> 0] >>

\* `for transaction in transactions { .. }`: `?` on the fee or on the tip
\* transaction returns the error and drops what was pushed
RECURSIVE CreateBundleFrom(_, _, _, _, _)
CreateBundleFrom(transactions, rpc, tip_amount, i, bundle_transactions) ==
    IF i > Len(transactions)
    THEN [status |-> "ok", transactions |-> bundle_transactions]
    ELSE IF ~rpc[i].fee_ok \/ ~rpc[i].blockhash_ok
    THEN [status |-> "err", transactions |-> <<>>]
    ELSE CreateBundleFrom(transactions, rpc, tip_amount, i + 1,
             bundle_transactions \o
             BundleEntries(transactions[i], rpc[i].fee,
                           CreateTipTransaction(tip_amount, rpc[i].blockhash),
                           tip_amount))

CreateBundle(transactions, rpc, tip_amount) ==
    CreateBundleFrom(transactions, rpc, tip_amount, 1, <<>>)

CallCreateBundle(transactions, rpc, tip_amount) ==
    /\ call = NoCall
    /\ call' = [op |-> "create_bundle", transactions |-> transactions, rpc |-> rpc,
                jito_tip_amount |-> tip_amount,
                result |-> CreateBundle(transactions, rpc, tip_amount)]
    /\ UNCHANGED <<pipeVars, w, statusLog, manager, price_history, pushed>>


\* One detector on one event, over the corners of its inputs: liquidity and
\* volume below, at and far above the caps of the formulas, the random factor
\* from 0 to just below 1, the inputs next to a floor (40000 and 40001
\* milli-SOL for the front-run floor, 11904 and 11905 for the arbitrage floor,
\* 5000 USD with the random factor 0 for the back-run floor), the volumes
\* whose back-run profit is the floor in exact arithmetic and above it on
\* f64 (4000 USD with 0.375 and 3750 USD with 0.5 give 0.15000000000000002),
\* a price of 0.
DetectLiquidities == {0, 10000, 11904, 11905, 40000, 40001, 50000, 100000, 1000000}
DetectVolumes == {0, 1000, 3750, 4000, 4999, 5000, 10000, 1000000}
DetectPrices == {0, 1, 19, 2000}
DetectRandoms == {0, 125, 375, 500, 999}

DetectInputs ==
    [strategy : {"frontrun", "arbitrage"}, initial_liquidity : DetectLiquidities,
     volume_1h : {0}, price_usd : {2000}, rnd : DetectRandoms]
    \cup [strategy : {"backrun"}, initial_liquidity : {0},
          volume_1h : DetectVolumes, price_usd : {2000}, rnd : DetectRandoms]
    \cup [strategy : {"sandwich"}, initial_liquidity : {0},
          volume_1h : DetectVolumes, price_usd : DetectPrices, rnd : {0}]

\* the profit the detector of the strategy computes for the event
ExpectedProfit(in) ==
    CASE in.strategy = "frontrun" -> CalculateFrontrunProfit(in.initial_liquidity, in.rnd)
      [] in.strategy = "arbitrage" -> CalculateArbitrageProfit(in.initial_liquidity, in.rnd)
      [] in.strategy = "sandwich" -> CalculateSandwichProfit(in.volume_1h, in.price_usd)
      [] in.strategy = "backrun" -> CalculateBackrunProfit(in.volume_1h, in.rnd)

\* detect_*_opportunity of the strategy
DetectOpportunity(in) ==
    CASE in.strategy = "frontrun" -> DetectFrontrunOpportunity(in, in.rnd)
      [] in.strategy = "arbitrage" -> DetectArbitrageOpportunity(in, in.rnd)
      [] in.strategy = "sandwich" -> DetectSandwichOpportunity(in)
      [] in.strategy = "backrun" -> DetectBackrunOpportunity(in, in.rnd)

CallDetectOpportunity(in) ==
    /\ call = NoCall
    /\ call' = [op |-> "detect_opportunity", input |-> in,
                profit |-> ExpectedProfit(in), result |-> DetectOpportunity(in)]
    /\ UNCHANGED <<pipeVars, w, statusLog, manager, price_history, pushed>>


PriceConfigs ==
    {[DefaultConfig EXCEPT !.mev_strategies = s] : s \in SUBSET {"sandwich", "backrun"}}

CallAnalyzePriceUpdate(update, c, r1) ==
    /\ call = NoCall
    /\ call' = [op |-> "analyze_price_update", update |-> update, config |-> c,
                r1 |-> r1, result |-> AnalyzePriceUpdate(update, c, r1)]
    /\ UNCHANGED <<pipeVars, w, statusLog, manager, price_history, pushed>>


\* One call of a manager's submit operation seen from its caller: what it
\* returns and what it leaves in the tracker.  local_id is the bundle_id
\* generate_bundle_id draws for the bundle, server_id the id in the answer of
\* the service (send_bundle, or the relay's submit).  The bundle manager keys
\* its record by local_id and returns server_id; the relay manager keys its
\* record by the id it returns.
SubmissionIds == {1, 2}
TrackersBefore == {{}, {[id |-> 3, created_at |-> 0]}, {[id |-> 1, created_at |-> 0]}}

TrackerKey(backend, local_id, server_id) ==
    IF backend = "jito" THEN local_id ELSE server_id

SubmitResult(backend, pending, outcome, local_id, server_id) ==
    [status |-> IF outcome = "ok" THEN "ok" ELSE "err",
     id |-> IF outcome = "ok" THEN server_id ELSE 0,
     pending |-> IF Tracks(backend, outcome)
                 THEN TrackSubmission(pending, TrackerKey(backend, local_id, server_id), 1)
                 ELSE pending]

CallSubmit(backend, pending, outcome, local_id, server_id) ==
    /\ call = NoCall
    /\ call' = [op |-> "submit", backend |-> backend, pending |-> pending,
                outcome |-> outcome, local_id |-> local_id, server_id |-> server_id,
                result |-> SubmitResult(backend, pending, outcome, local_id, server_id)]
    /\ UNCHANGED <<pipeVars, w, statusLog, manager, price_history, pushed>>

(***************************************************************************)
(* jito_client.rs / nozomi_client.rs / sniper.rs: the cleanups by age      *)
(*   BundleManager::cleanup_completed_bundles                              *)
(*   NozomiManager::cleanup_completed_submissions                          *)
(*   the retain of the trade monitor in SniperBot::start                   *)
(* Clock readings and created_at are whole seconds since UNIX_EPOCH.       *)
(***************************************************************************)
BundleRetention == 300        \* `elapsed < 300 // Keep bundles for 5 minutes`
SubmissionRetention == 600    \* `.as_secs() - 600; // 10 minutes`

Retention(backend) ==
    IF backend = "jito" THEN BundleRetention ELSE SubmissionRetention

\* the closures given to retain, the subtraction wrapping:
\*   bundle: now - bundle.created_at < 300
\*   relay:  submission.created_at > now - 600
Keeps(backend, record, now) ==
    IF backend = "jito"
    THEN /\ ~SubOverflows(now, record.created_at)
         /\ now - record.created_at < BundleRetention
    ELSE /\ ~SubOverflows(now, SubmissionRetention)
         /\ record.created_at > now - SubmissionRetention

\* pending_bundles.retain(..) / pending_submissions.retain(..), the
\* subtraction wrapping
RetainPending(backend, pending, now) ==
    {record \in pending : Keeps(backend, record, now)}

\* whether a subtraction of the cleanup overflows: the bundle cleanup
\* subtracts once per record, the relay cleanup once before its retain
CleanupOverflows(backend, pending, now) ==
    IF backend = "jito"
    THEN \E record \in pending : SubOverflows(now, record.created_at)
    ELSE SubOverflows(now, SubmissionRetention)

\* the records a retain that panics may have removed: HashMap::retain visits
\* the records in the order of the table and erases each expired one as it
\* goes, so the ones visited before the record whose subtraction overflows
\* are gone when the panic unwinds
SweptBeforePanic(records, kept) ==
    SUBSET {record \in records : record \notin kept}

\* cleanup_completed_bundles / cleanup_completed_submissions at clock reading
\* now, in a build with or without overflow checks: the outcomes it can have.
\* The relay cleanup subtracts before its retain and panics with the tracker
\* untouched.
CleanupCompleted(backend, pending, now, overflow_checks) ==
    IF overflow_checks /\ CleanupOverflows(backend, pending, now)
    THEN IF backend = "jito"
         THEN {[status |-> "panic", pending |-> pending \ swept] :
                  swept \in SweptBeforePanic(
                      {record \in pending : ~SubOverflows(now, record.created_at)},
                      RetainPending(backend, pending, now))}
         ELSE {[status |-> "panic", pending |-> pending]}
    ELSE {[status |-> "ok", pending |-> RetainPending(backend, pending, now)]}

TradeRetention == 300         \* `elapsed < 300 // Keep trades for 5 minutes`

\* trades.retain(|_, trade| now - trade.created_at < 300), the u64
\* subtraction wrapping
RetainTrades(trades, now) ==
    {trade \in trades : /\ ~SubOverflows(now, trade.created_at)
                        /\ now - trade.created_at < TradeRetention}

\* the retain of the monitor loop in a build with or without overflow
\* checks, the outcomes it can have: the panic ends the monitor task, the
\* write guard is dropped in the unwinding
MonitorRetain(trades, now, overflow_checks) ==
    IF overflow_checks /\ \E trade \in trades : SubOverflows(now, trade.created_at)
    THEN {[status |-> "panic", trades |-> trades \ swept] :
             swept \in SweptBeforePanic(
                 {trade \in trades : ~SubOverflows(now, trade.created_at)},
                 RetainTrades(trades, now))}
    ELSE {[status |-> "ok", trades |-> RetainTrades(trades, now)]}

MaxCleanupRecords == 2    \* records in a tracker that is cleaned

\* trackers and clock readings for single cleanups: a record stamped after
\* the reading, one stamped before second 600, records at and next to the
\* age limits; the records of a tracker have different keys
CleanupRecords == [id : 1..MaxCleanupRecords, created_at : {400, 599, 700, 701, 1001}]
CleanupTrackers ==
    {tracker \in SUBSET CleanupRecords :
        \A a \in tracker, b \in tracker : a.id = b.id => a = b}
CleanupClocks == {599, 1000}

CallCleanupCompleted(backend, pending, now, overflow_checks, result) ==
    /\ call = NoCall
    /\ result \in CleanupCompleted(backend, pending, now, overflow_checks)
    /\ call' = [op |-> "cleanup_completed", backend |-> backend, pending |-> pending,
                now |-> now, overflow_checks |-> overflow_checks, result |-> result]
    /\ UNCHANGED <<pipeVars, w, statusLog, manager, price_history, pushed>>

CallMonitorRetain(trades, now, overflow_checks, result) ==
    /\ call = NoCall
    /\ result \in MonitorRetain(trades, now, overflow_checks)
    /\ call' = [op |-> "monitor_retain", trades |-> trades,
                now |-> now, overflow_checks |-> overflow_checks, result |-> result]
    /\ UNCHANGED <<pipeVars, w, statusLog, manager, price_history, pushed>>

\* one call per behaviour: nothing is enabled once the call is made
NextCalls ==
    /\ call = NoCall
    /\ \/ \E profit \in Profits, confidence \in Confidences, risk \in Risks :
             CallCalculatePriority(profit, confidence, risk)
       \/ \E signals \in SignalLists : CallSortSignals(signals)
       \/ \E listing \in CallListings, c \in CallConfigs : CallShouldSnipeToken(listing, c)
       \/ \E listing \in CallListings, c \in CallConfigs,
             r1 \in RandomSamples, r2 \in RandomSamples :
             CallAnalyzeNewListing(listing, c, r1, r2)
       \/ \E kind \in {"listing", "price"} : \E signals \in Opportunities(kind) :
             CallDispatchSignals(kind, signals)
       \/ \E listings \in ListingBatches, updates \in PriceBatches, c \in BatchConfigs,
             run \in CleanupRuns :
             CallAnalyzeOpportunities(listings, updates, c, run)
       \/ \E histories \in StoredHistories, updates \in TimedBatches :
             CallUpdatePriceHistory(histories, updates)
       \/ \E strategy \in PlannedStrategies, c \in PlanConfigs :
             CallCreateExecutionPlan(strategy, c)
       \/ \E n \in 0..MaxBundleTxs :
             \E ids \in [1..n -> TxIds], rpc \in [1..n -> RpcOutcomes],
                tip_amount \in TipAmounts :
                CallCreateBundle([i \in 1..n |-> [kind |-> "tx", id |-> ids[i]]],
                                 rpc, tip_amount)
       \/ \E in \in DetectInputs : CallDetectOpportunity(in)
       \/ \E backend \in Backends, pending \in CleanupTrackers, now \in CleanupClocks,
             overflow_checks \in BOOLEAN :
             \E result \in CleanupCompleted(backend, pending, now, overflow_checks) :
                CallCleanupCompleted(backend, pending, now, overflow_checks, result)
       \/ \E trades \in CleanupTrackers, now \in CleanupClocks, overflow_checks \in BOOLEAN :
             \E result \in MonitorRetain(trades, now, overflow_checks) :
                CallMonitorRetain(trades, now, overflow_checks, result)
       \/ \E update \in PriceUpdates, c \in PriceConfigs, r1 \in RandomSamples :
             CallAnalyzePriceUpdate(update, c, r1)
       \/ \E backend \in Backends, pending \in TrackersBefore, outcome \in SubmitOutcomes,
             local_id \in SubmissionIds, server_id \in SubmissionIds :
             CallSubmit(backend, pending, outcome, local_id, server_id)

SpecCalls == InitCalls /\ [][NextCalls]_vars

(***************************************************************************)
(* jito_client.rs / nozomi_client.rs: the trackers and their cleanup       *)
(*   BundleManager::cleanup_completed_bundles                              *)
(*   NozomiManager::cleanup_completed_submissions                          *)
(* manager.now is SystemTime::now() in whole seconds since UNIX_EPOCH; it  *)
(* starts at ClockStart and does not run backwards, so no subtraction of   *)
(* the cleanups overflows here (CleanupCompleted has the overflow).        *)
(***************************************************************************)
MaxTracked == 2       \* records inserted into the tracker
MaxTicks == 4         \* clock readings that differ from the one before

ClockStart == 1000
ClockSteps == {1, 299, 300}


\* every id that is not a key is reported Failed
ManagerGetBundleStatusFailing(pending, bundle_id) ==
    IF \E record \in pending : record.id = bundle_id THEN "pending" ELSE "failed"

\* BundleManager::get_bundle_status: `contains_key` decides, the answer is
\* always Some(..)
ManagerGetBundleStatus(pending, bundle_id) ==
    IF \E record \in pending : record.id = bundle_id THEN "pending" ELSE "confirmed"

\* a submit call stores its record, created_at = now
TrackerInsert ==
    /\ manager.calls < MaxTracked
    /\ manager' = [manager EXCEPT
          !.pending = TrackSubmission(@, manager.calls + 1, manager.now),
          !.calls = @ + 1,
          !.last = "insert"]
    /\ UNCHANGED <<pipeVars, w, statusLog, price_history, pushed, call>>

\* time passes between two operations on the manager
ClockAdvance(d) ==
    /\ manager.ticks < MaxTicks
    /\ manager' = [manager EXCEPT !.now = @ + d, !.ticks = @ + 1, !.last = "tick"]
    /\ UNCHANGED <<pipeVars, w, statusLog, price_history, pushed, call>>

TrackerCleanup ==
    /\ manager' = [manager EXCEPT
          !.pending = RetainPending(manager.backend, @, manager.now),
          !.last = "cleanup"]
    /\ UNCHANGED <<pipeVars, w, statusLog, price_history, pushed, call>>

InitTracker ==
    /\ PipelineIdle
    /\ w = IdleWait
    /\ statusLog = <<>>
    /\ price_history = NoHistory
    /\ pushed = NoPushes
    /\ call = NoCall
    /\ \E backend \in Backends :
          manager = [IdleManager EXCEPT !.backend = backend, !.now = ClockStart]

NextTracker ==
    \/ TrackerInsert
    \/ \E d \in ClockSteps : ClockAdvance(d)
    \/ TrackerCleanup

SpecTracker == InitTracker /\ [][NextTracker]_vars

(***************************************************************************)
(* sniper.rs: the trade monitor of SniperBot::start and the trackers       *)
(* The per-event task owns a clone of the bot's manager: manager.pending   *)
(* is the tracker of that clone, dropped with the task. The monitor loop   *)
(* owns Arc::new(RwLock::new(self.active_trades.clone())), which is        *)
(* manager.active_trades; manager.swept collects the ids its retain has    *)
(* removed.                                                                *)
(***************************************************************************)
\* one round of the monitor loop: interval.tick(), write lock, retain
TradeMonitorTick ==
    /\ manager' = [manager EXCEPT
          !.active_trades = RetainTrades(@, manager.now),
          !.swept = @ \cup {trade.id : trade \in
                       manager.active_trades \ RetainTrades(manager.active_trades, manager.now)},
          !.last = "monitor"]
    /\ UNCHANGED <<pipeVars, w, statusLog, price_history, pushed, call>>

\* the per-event task returns: its manager clone and the tracker in it are
\* dropped; the next task starts from a clone of the bot's manager
TaskDropsManager ==
    /\ manager.pending # {}
    /\ manager' = [manager EXCEPT !.pending = {}, !.last = "drop"]
    /\ UNCHANGED <<pipeVars, w, statusLog, price_history, pushed, call>>

InitHousekeeping == InitTracker

NextHousekeeping ==
    \/ TrackerInsert
    \/ \E d \in ClockSteps : ClockAdvance(d)
    \/ TradeMonitorTick
    \/ TaskDropsManager

\* the monitor loop runs forever and time passes
SpecHousekeeping ==
    /\ InitHousekeeping
    /\ [][NextHousekeeping]_vars
    /\ WF_vars(TradeMonitorTick)
    /\ WF_vars(\E d \in ClockSteps : ClockAdvance(d))

(***************************************************************************)
(* sniper.rs: the backend managers and the dispatcher                      *)
(*   SniperBot::new, execute_snipe, execute_mev_strategy and the blocks    *)
(*   of process_new_listing / process_price_update that call them          *)
(* manager.jito_manager / manager.nozomi_manager: the Option is Some.      *)
(* `call` is the dispatch in progress, one at a time.                      *)
(***************************************************************************)
MaxDispatches == 3    \* dispatches made one after the other

\* confirmation_service is a String read from the TOML file
Services == {"jito", "nozomi", "helius"}

WithService(c, service) == ("confirmation_service" :> service) @@ c

\* SniperBot::new: the two managers
NewJitoManager(service) == service = "jito"
NewNozomiManager(service) == service = "nozomi"

NewBot(service) ==
    [IdleManager EXCEPT !.jito_manager = NewJitoManager(service),
                        !.nozomi_manager = NewNozomiManager(service)]

\* execute_snipe is called inside the block that owns _permit, and so is the
\* execute_mev_strategy of process_price_update; the one of
\* process_new_listing is called after that block
DispatchKinds ==
    {<<"execute_snipe", "listing">>, <<"execute_mev_strategy", "listing">>,
     <<"execute_mev_strategy", "price">>}

NeedsPermit(op, trigger) == op = "execute_snipe" \/ trigger = "price"

DispatchBegin(op, trigger) ==
    /\ call = NoCall
    /\ manager.calls < MaxDispatches
    /\ NeedsPermit(op, trigger) => CanAcquire(permits)
    /\ permits' = IF NeedsPermit(op, trigger) THEN permits - 1 ELSE permits
    /\ call' = [op |-> op, trigger |-> trigger, pc |-> "create",
                holds |-> NeedsPermit(op, trigger), backend |-> "none",
                submitted |-> <<>>, result |-> "none"]
    /\ UNCHANGED <<cfg, waitq, tasks, lstream, pstream, nread, startPc, w,
                   statusLog, manager, price_history, pushed>>

\* what create_buy_transaction can return for the dispatch: the opportunity
\* of a price update has the empty pool_address (mev_detector.rs 250, 282),
\* which `pool_address.parse()?` rejects
CreateOutcomes(op, trigger) ==
    IF op = "execute_mev_strategy" /\ trigger = "price" THEN {"err"} ELSE {"ok", "err"}

\* create_buy_transaction / create_mev_transactions, `?` on their error
CreateTransactions(outcome) ==
    /\ call # NoCall
    /\ call.pc = "create"
    /\ outcome \in CreateOutcomes(call.op, call.trigger)
    /\ call' = IF outcome = "ok"
               THEN [call EXCEPT !.pc = "select"]
               ELSE [call EXCEPT !.pc = "returned", !.result = "create_err"]
    /\ UNCHANGED <<pipeVars, w, statusLog, manager, price_history, pushed>>

SelectedBackendOrJito(service, jito, nozomi) ==
    IF service = "nozomi" THEN (IF nozomi THEN "nozomi" ELSE "none") ELSE "jito"

\* match confirmation_service { "jito" => if let Some(..), "nozomi" => if let Some(..), _ => Err }
SelectedBackend(service, jito, nozomi) ==
    IF service = "jito" THEN (IF jito THEN "jito" ELSE "none")
    ELSE IF service = "nozomi" THEN (IF nozomi THEN "nozomi" ELSE "none")
    ELSE "none"

SelectBackend ==
    /\ call # NoCall
    /\ call.pc = "select"
    /\ LET backend == SelectedBackend(cfg.confirmation_service,
                                      manager.jito_manager, manager.nozomi_manager)
       IN  call' = IF backend = "none"
                   THEN [call EXCEPT !.pc = "returned", !.result = "no_backend"]
                   ELSE [call EXCEPT !.pc = "submit", !.backend = backend]
    /\ UNCHANGED <<pipeVars, w, statusLog, manager, price_history, pushed>>

PcAfterSubmitRetrying(outcome) == IF outcome = "ok" THEN "returned" ELSE "submit"

\* `manager.submit_..(..).await?` is followed by info!(..) and Ok(()), its
\* error leaves the function
PcAfterSubmit(outcome) == "returned"

\* the selected manager's submit operation returns
SubmitReturns(outcome) ==
    /\ call # NoCall
    /\ call.pc = "submit"
    /\ call' = [call EXCEPT !.pc = PcAfterSubmit(outcome),
                            !.submitted = Append(@, call.backend),
                            !.result = IF outcome = "ok" THEN "ok" ELSE "submit_err"]
    /\ manager' = [manager EXCEPT !.spawned = IF outcome = "ok" THEN @ + 1 ELSE @,
                                  !.awaiting = IF outcome = "ok" THEN @ + 1 ELSE @]
    /\ UNCHANGED <<pipeVars, w, statusLog, price_history, pushed>>

\* a detached confirmation wait returns (confirmed, failed or timed out); its
\* task only logs the result
ConfirmationWaitEnds ==
    /\ manager.awaiting > 0
    /\ manager' = [manager EXCEPT !.awaiting = @ - 1]
    /\ UNCHANGED <<pipeVars, w, statusLog, price_history, pushed, call>>

\* the permit stays taken while the confirmation wait of the dispatch runs
PermitsAfterDispatchHeldByWait(p, holds, result) ==
    IF holds /\ result # "ok" THEN p + 1 ELSE p

\* the block that owns _permit ends when execute_snipe / execute_mev_strategy
\* has returned, whatever it returned
PermitsAfterDispatch(p, holds, result) == IF holds THEN p + 1 ELSE p

\* back in the caller: `if let Err(e) = .. { error!(..) }`, then the block
\* ends and _permit, if the block owns one, is dropped
DispatchEnd ==
    /\ call # NoCall
    /\ call.pc = "returned"
    /\ permits' = PermitsAfterDispatch(permits, call.holds, call.result)
    /\ manager' = [manager EXCEPT !.calls = @ + 1, !.last = call.result]
    /\ call' = NoCall
    /\ UNCHANGED <<cfg, waitq, tasks, lstream, pstream, nread, startPc, w,
                   statusLog, price_history, pushed>>

InitDispatch ==
    /\ \E service \in Services, capacity \in 1..MaxCapacity :
          cfg = WithService([DefaultConfig EXCEPT !.max_concurrent_trades = capacity],
                            service)
    /\ permits = cfg.max_concurrent_trades
    /\ waitq = <<>>
    /\ tasks = EmptyBag
    /\ lstream = "running"
    /\ pstream = "running"
    /\ nread = 0
    /\ startPc = "running"
    /\ w = IdleWait
    /\ statusLog = <<>>
    /\ manager = NewBot(cfg.confirmation_service)
    /\ price_history = NoHistory
    /\ pushed = NoPushes
    /\ call = NoCall

NextDispatch ==
    \/ \E kind \in DispatchKinds : DispatchBegin(kind[1], kind[2])
    \/ \E outcome \in {"ok", "err"} : CreateTransactions(outcome)
    \/ SelectBackend
    \/ \E outcome \in {"ok", "err"} : SubmitReturns(outcome)
    \/ DispatchEnd
    \/ ConfirmationWaitEnds

SpecDispatch == InitDispatch /\ [][NextDispatch]_vars

(***************************************************************************)
(* sniper.rs: the detector handed to the tasks of the price consumer       *)
(* price_history is the history of the detector captured by the callback   *)
(* (a clone of self.mev_detector); `call` is the task of one price update  *)
(* with the history of its own detector; pushed counts the price updates   *)
(* read per token, which also names the points.                            *)
(***************************************************************************)
MaxPriceEvents == 4   \* price updates read per token

\* `let mev_detector = mev_detector.clone();` inside the callback
CloneDetector(history) == [t \in HistoryTokens |-> history[t]]

\* the callback: clone the handles, spawn process_price_update, return Ok(true)
PriceTaskSpawned(t) ==
    /\ call = NoCall
    /\ pushed[t] < MaxPriceEvents
    /\ pushed' = [pushed EXCEPT ![t] = @ + 1]
    /\ call' = [op |-> "process_price_update", token |-> t, point |-> pushed[t] + 1,
                pc |-> "spawned", detector |-> CloneDetector(price_history)]
    /\ UNCHANGED <<pipeVars, w, statusLog, manager, price_history>>

\* analyze_opportunities(&[], &[price_update]) on the task's detector:
\* update_price_history pushes the point and trims
PriceTaskAnalyzes ==
    /\ call # NoCall
    /\ call.pc = "spawned"
    /\ call' = [call EXCEPT
          !.pc = "analyzed",
          !.detector = [@ EXCEPT ![call.token] = TrimHistory(Append(@, call.point))]]
    /\ UNCHANGED <<pipeVars, w, statusLog, manager, price_history, pushed>>

\* process_price_update returns: the task's detector is dropped
PriceTaskReturns ==
    /\ call # NoCall
    /\ call.pc = "analyzed"
    /\ call' = NoCall
    /\ UNCHANGED <<pipeVars, w, statusLog, manager, price_history, pushed>>

InitDetector ==
    /\ PipelineIdle
    /\ w = IdleWait
    /\ UnitsIdle

NextDetector ==
    \/ \E t \in HistoryTokens : PriceTaskSpawned(t)
    \/ PriceTaskAnalyzes
    \/ PriceTaskReturns

SpecDetector == InitDetector /\ [][NextDetector]_vars


(***************************************************************************)
(* The configuration lock during detection.  analyze_new_listing and       *)
(* analyze_price_update take `self.config.read().await` and keep the guard *)
(* until they return; when a detector builds an opportunity, its           *)
(* create_*_execution_plan takes `self.config.read().await` again.  The    *)
(* lock is tokio::sync::RwLock, whose waiters are served first come first  *)
(* served: a read requested while a writer is queued queues behind it.     *)
(* `call` holds the detections in progress together with the lock they     *)
(* share and the one other task that asks for the write lock.              *)
(***************************************************************************)
MaxDetections == 2    \* detections running at once on the shared config
MaxWrites == 1        \* write locks the other task takes

Detections == 1..MaxDetections

\* RwLock::read / RwLock::write: granted at once only when nothing is queued
CanReadNow(lock) == ~lock.writing /\ lock.queue = <<>>
CanWriteNow(lock) == ~lock.writing /\ lock.readers = 0 /\ lock.queue = <<>>

\* A release hands the lock to the queue, front first, in the same call: the
\* readers in front of the next writer once no writer holds the lock, the
\* writer (0) once no guard is alive.  A task that is handed the lock holds
\* it from then on, before it runs again.
RECURSIVE Serve(_)
Serve(lock) ==
    IF lock.queue = <<>> \/ lock.writing THEN lock
    ELSE LET head == Head(lock.queue) IN
         IF head = 0
         THEN IF lock.readers = 0
              THEN [lock EXCEPT !.queue = Tail(@), !.writer = "writing", !.writing = TRUE]
              ELSE lock
         ELSE Serve([lock EXCEPT
                        !.queue = Tail(@),
                        !.readers = @ + 1,
                        !.pc[head] = IF lock.pc[head] = "wait1" THEN "hold1" ELSE "hold2"])

\* analyze_new_listing / analyze_price_update are entered, one per event
\* task; builds[d] says whether the event of d yields an opportunity
DetectionsBegin(builds) ==
    /\ call = NoCall
    /\ call' = [op |-> "analyze", pc |-> [d \in Detections |-> "start"],
                builds |-> builds, readers |-> 0, writing |-> FALSE,
                queue |-> <<>>, writer |-> "idle", writes |-> 0]
    /\ UNCHANGED <<pipeVars, w, statusLog, manager, price_history, pushed>>

\* `let config_guard = self.config.read().await;` of the analysis
ReadFirst(d) ==
    /\ call # NoCall
    /\ call.op = "analyze"
    /\ call.pc[d] = "start"
    /\ call' = IF CanReadNow(call)
               THEN [call EXCEPT !.pc[d] = "hold1", !.readers = @ + 1]
               ELSE [call EXCEPT !.pc[d] = "wait1", !.queue = Append(@, d)]
    /\ UNCHANGED <<pipeVars, w, statusLog, manager, price_history, pushed>>

\* the detector found an opportunity: create_*_execution_plan asks for the
\* read lock again while config_guard of the analysis is still alive
ReadSecond(d) ==
    /\ call # NoCall
    /\ call.op = "analyze"
    /\ call.pc[d] = "hold1"
    /\ call.builds[d]
    /\ call' = IF CanReadNow(call)
               THEN [call EXCEPT !.pc[d] = "hold2", !.readers = @ + 1]
               ELSE [call EXCEPT !.pc[d] = "wait2", !.queue = Append(@, d)]
    /\ UNCHANGED <<pipeVars, w, statusLog, manager, price_history, pushed>>

\* create_*_execution_plan returns its plan: its guard is dropped
PlanReturns(d) ==
    /\ call # NoCall
    /\ call.op = "analyze"
    /\ call.pc[d] = "hold2"
    /\ call' = Serve([call EXCEPT !.pc[d] = "planned", !.readers = @ - 1])
    /\ UNCHANGED <<pipeVars, w, statusLog, manager, price_history, pushed>>

\* the analysis returns, with the signal or with None: config_guard is dropped
AnalysisReturns(d) ==
    /\ call # NoCall
    /\ call.op = "analyze"
    /\ \/ call.pc[d] = "planned"
       \/ call.pc[d] = "hold1" /\ ~call.builds[d]
    /\ call' = Serve([call EXCEPT !.pc[d] = "done", !.readers = @ - 1])
    /\ UNCHANGED <<pipeVars, w, statusLog, manager, price_history, pushed>>

\* another holder of the Arc<RwLock<Config>> calls config.write().await
WriteRequested ==
    /\ call # NoCall
    /\ call.op = "analyze"
    /\ call.writer = "idle"
    /\ call.writes < MaxWrites
    /\ call' = IF CanWriteNow(call)
               THEN [call EXCEPT !.writer = "writing", !.writing = TRUE]
               ELSE [call EXCEPT !.writer = "waiting", !.queue = Append(@, 0)]
    /\ UNCHANGED <<pipeVars, w, statusLog, manager, price_history, pushed>>

\* the write guard is dropped: the readers queued behind it hold the lock
\* when the drop returns
WriteReleased ==
    /\ call # NoCall
    /\ call.op = "analyze"
    /\ call.writer = "writing"
    /\ call' = Serve([call EXCEPT !.writer = "idle", !.writing = FALSE, !.writes = @ + 1])
    /\ UNCHANGED <<pipeVars, w, statusLog, manager, price_history, pushed>>

InitConfigLock ==
    /\ PipelineIdle
    /\ w = IdleWait
    /\ UnitsIdle

NextConfigLock ==
    \/ \E builds \in [Detections -> BOOLEAN] : DetectionsBegin(builds)
    \/ \E d \in Detections : ReadFirst(d)
    \/ \E d \in Detections : ReadSecond(d)
    \/ \E d \in Detections : PlanReturns(d)
    \/ \E d \in Detections : AnalysisReturns(d)
    \/ WriteRequested
    \/ WriteReleased

SpecConfigLock == InitConfigLock /\ [][NextConfigLock]_vars


(***************************************************************************)
(* A change of the configuration while the listing consumer runs.  `cfg`   *)
(* is the Config behind the shared Arc<RwLock<..>>; `call` is the          *)
(* TokenListingStream built by the consumer, with the copy of target_tokens *)
(* taken by TokenListingStream::new, the last listing it read, the         *)
(* process_new_listing tasks its callback has spawned and the last snipe   *)
(* decision one of them has made.                                          *)
(***************************************************************************)
MaxConfigWrites == 1      \* changes of target_tokens after the stream is built
MaxRetargetReads == 2     \* listings read by the stream

TargetLists == SUBSET Tokens

NothingRead ==
    [listing |-> [token_address |-> "none", initial_liquidity |-> 0],
     targets |-> {}, delivered |-> FALSE]

NothingDecided ==
    [listing |-> [token_address |-> "none", initial_liquidity |-> 0],
     targets |-> {}, snipe |-> FALSE]

\* `target_tokens: config.read().await.target_tokens.clone()`
ListingStreamNew ==
    /\ call = NoCall
    /\ call' = [op |-> "listing_stream", target_tokens |-> cfg.target_tokens,
                writes |-> 0, reads |-> 0, last |-> NothingRead,
                spawned |-> <<>>, decisions |-> 0, decided |-> NothingDecided]
    /\ UNCHANGED <<pipeVars, w, statusLog, manager, price_history, pushed>>

\* another holder of the Arc<RwLock<Config>> replaces target_tokens
ConfigWritten(targets) ==
    /\ call # NoCall
    /\ call.op = "listing_stream"
    /\ call.writes < MaxConfigWrites
    /\ targets # cfg.target_tokens
    /\ cfg' = [cfg EXCEPT !.target_tokens = targets]
    /\ call' = [call EXCEPT !.writes = @ + 1]
    /\ UNCHANGED <<permits, waitq, tasks, lstream, pstream, nread, startPc,
                   w, statusLog, manager, price_history, pushed>>

\* start_streaming reads a listing and filters it with the stream's list; for
\* a delivered listing the callback spawns process_new_listing and returns
ListingFiltered(listing) ==
    /\ call # NoCall
    /\ call.op = "listing_stream"
    /\ call.reads < MaxRetargetReads
    /\ LET delivered == StreamAccepts(listing, call.target_tokens)
       IN  call' = [call EXCEPT
              !.reads = @ + 1,
              !.last = [listing |-> listing, targets |-> cfg.target_tokens,
                        delivered |-> delivered],
              !.spawned = IF delivered THEN Append(@, listing) ELSE @]
    /\ UNCHANGED <<pipeVars, w, statusLog, manager, price_history, pushed>>

\* one of the spawned tasks runs: should_snipe_token takes config.read() and
\* decides with the configuration of that moment
SnipeDecided(i) ==
    /\ call # NoCall
    /\ call.op = "listing_stream"
    /\ i \in 1..Len(call.spawned)
    /\ call' = [call EXCEPT
          !.spawned = SubSeq(@, 1, i - 1) \o SubSeq(@, i + 1, Len(@)),
          !.decisions = @ + 1,
          !.decided = [listing |-> call.spawned[i], targets |-> cfg.target_tokens,
                       snipe |-> ShouldSnipeToken(call.spawned[i], cfg)]]
    /\ UNCHANGED <<pipeVars, w, statusLog, manager, price_history, pushed>>

InitRetarget ==
    /\ \E targets \in TargetLists : cfg = [DefaultConfig EXCEPT !.target_tokens = targets]
    /\ permits = cfg.max_concurrent_trades
    /\ waitq = <<>>
    /\ tasks = EmptyBag
    /\ lstream = "running"
    /\ pstream = "running"
    /\ nread = 0
    /\ startPc = "running"
    /\ w = IdleWait
    /\ UnitsIdle

NextRetarget ==
    \/ ListingStreamNew
    \/ \E targets \in TargetLists : ConfigWritten(targets)
    \/ \E listing \in Listings : ListingFiltered(listing)
    \/ \E i \in 1..MaxRetargetReads : SnipeDecided(i)

SpecRetarget == InitRetarget /\ [][NextRetarget]_vars


(***************************************************************************)
(* sniper.rs / mev_detector.rs: the deadline of an opportunity             *)
(* `call` is the task of one price update from the signal it got from      *)
(* analyze_opportunities to its return; manager.now is the clock in        *)
(* seconds; the slots that are neither free nor held by this task are held *)
(* by the dispatches of other tasks.  The loop of process_price_update is  *)
(* run on the signals of GateSamples("price"), every priority of the        *)
(* MEVPriority type: the signals of the detector, BackRun of priority Low,  *)
(* are among them and return at the gate.                                   *)
(***************************************************************************)
DeadlineSteps == {1, 20}      \* seconds that pass between two steps

\* `deadline: now + 10` for Sandwich (254), `+ 20` for BackRun (286)
TimeToLive(strategy) == IF strategy = "sandwich" THEN 10 ELSE 20

\* `pool_address: String::new()` of detect_sandwich_opportunity (250) and
\* detect_backrun_opportunity (282)
PricePoolAddress == ""

\* `pool_address.parse()?` of create_buy_transaction: the empty string is
\* not a Pubkey
ParsesAsPubkey(address) == address # ""

\* `for signal in opportunities`: the loop of process_price_update takes
\* the signal; its opportunity was built with the deadline and the pool
\* address of its detector
SignalReturned(signal) ==
    /\ call = NoCall
    /\ manager.calls < MaxDispatches
    /\ call' = [op |-> "process_price_update", pc |-> "gate",
                strategy |-> signal.strategy, priority |-> signal.priority,
                pool_address |-> PricePoolAddress,
                deadline |-> manager.now + TimeToLive(signal.strategy),
                holds |-> FALSE, parked |-> FALSE, acquired_at |-> 0, entered_at |-> 0]
    /\ UNCHANGED <<pipeVars, w, statusLog, manager, price_history, pushed>>

\* `if signal.priority >= MEVPriority::Medium`, then
\* `let _permit = trade_semaphore.acquire().await?`: with a free permit the
\* acquire returns at once, with none the task is parked
SignalGated ==
    /\ call # NoCall
    /\ call.pc = "gate"
    /\ IF ~PriceGate(call)
       THEN /\ call' = [call EXCEPT !.pc = "returned"]
            /\ UNCHANGED permits
       ELSE IF CanAcquire(permits)
       THEN /\ permits' = permits - 1
            /\ call' = [call EXCEPT !.pc = "execute_mev", !.holds = TRUE,
                                    !.acquired_at = manager.now]
       ELSE /\ call' = [call EXCEPT !.pc = "acquire", !.parked = TRUE]
            /\ UNCHANGED permits
    /\ UNCHANGED <<cfg, waitq, tasks, lstream, pstream, nread, startPc, w,
                   statusLog, manager, price_history, pushed>>

\* the parked task, handed the permit by the release of another dispatch,
\* runs again: acquire() returns
SlotObtained ==
    /\ call # NoCall
    /\ call.pc = "acquire"
    /\ call.holds
    /\ call' = [call EXCEPT !.pc = "execute_mev", !.acquired_at = manager.now]
    /\ UNCHANGED <<pipeVars, w, statusLog, manager, price_history, pushed>>

\* a dispatcher that skips an opportunity whose deadline has passed
PcAfterSlotUnlessExpired(signal, rest) ==
    IF manager.now > signal.deadline THEN "returned"
    ELSE IF ~ParsesAsPubkey(signal.pool_address) THEN "failed"
    ELSE IF rest = "ok" THEN "submitted"
    ELSE "failed"

\* execute_mev_strategy: create_mev_transactions fails on a pool address
\* that does not parse and `?` returns the error before a manager is looked
\* at; otherwise the function returns Ok after the submit of the selected
\* manager (rest = "ok") or an error of the selection or of the submit.
\* opportunity.deadline is read nowhere.
PcAfterSlot(signal, rest) ==
    IF ~ParsesAsPubkey(signal.pool_address) THEN "failed"
    ELSE IF rest = "ok" THEN "submitted"
    ELSE "failed"

MevDispatched(rest) ==
    /\ call # NoCall
    /\ call.pc = "execute_mev"
    /\ call' = [call EXCEPT !.pc = PcAfterSlot(call, rest),
                            !.entered_at = manager.now]
    /\ UNCHANGED <<pipeVars, w, statusLog, manager, price_history, pushed>>

\* `error!("MEV strategy execution failed: {}", e)`, the block ends, _permit
\* is dropped, the task returns
PriceTaskEnds ==
    /\ call # NoCall
    /\ call.op = "process_price_update"
    /\ call.pc \in {"returned", "failed", "submitted"}
    /\ permits' = IF call.holds THEN permits + 1 ELSE permits
    /\ manager' = [manager EXCEPT !.calls = @ + 1, !.last = call.pc]
    /\ call' = NoCall
    /\ UNCHANGED <<cfg, waitq, tasks, lstream, pstream, nread, startPc, w,
                   statusLog, price_history, pushed>>

\* whether the price task is parked in acquire() with no permit yet
Parked == call # NoCall /\ call.pc = "acquire" /\ ~call.holds

\* the dispatch of another task takes a free slot
OtherDispatchBegins ==
    /\ CanAcquire(permits)
    /\ permits' = permits - 1
    /\ UNCHANGED <<cfg, waitq, tasks, lstream, pstream, nread, startPc, w, unitVars>>

\* the dispatch of another task drops its permit: it goes to the task parked
\* in acquire() in the same call, to the semaphore when no task is parked
OtherDispatchEnds ==
    /\ permits + (IF call # NoCall /\ call.holds THEN 1 ELSE 0) < cfg.max_concurrent_trades
    /\ IF Parked
       THEN /\ call' = [call EXCEPT !.holds = TRUE]
            /\ UNCHANGED permits
       ELSE /\ permits' = permits + 1
            /\ UNCHANGED call
    /\ UNCHANGED <<cfg, waitq, tasks, lstream, pstream, nread, startPc, w,
                   statusLog, manager, price_history, pushed>>

InitDeadline ==
    /\ cfg = [DefaultConfig EXCEPT !.max_concurrent_trades = 1]
    /\ permits = cfg.max_concurrent_trades
    /\ waitq = <<>>
    /\ tasks = EmptyBag
    /\ lstream = "running"
    /\ pstream = "running"
    /\ nread = 0
    /\ startPc = "running"
    /\ w = IdleWait
    /\ statusLog = <<>>
    /\ manager = [IdleManager EXCEPT !.now = ClockStart]
    /\ price_history = NoHistory
    /\ pushed = NoPushes
    /\ call = NoCall

NextDeadline ==
    \/ \E signal \in GateSamples("price") : SignalReturned(signal)
    \/ SignalGated
    \/ SlotObtained
    \/ \E rest \in {"ok", "err"} : MevDispatched(rest)
    \/ PriceTaskEnds
    \/ OtherDispatchBegins
    \/ OtherDispatchEnds
    \/ \E d \in DeadlineSteps : ClockAdvance(d)

SpecDeadline == InitDeadline /\ [][NextDeadline]_vars

(***************************************************************************)
(* Properties                                                              *)
(***************************************************************************)
Dispatching(task) == task.pc \in {"execute_snipe", "execute_mev"}
Holding(task) == task.holds

\* the number of tasks of the bag that satisfy P
CountWhere(P(_)) ==
    BagCardinality([x \in {y \in DOMAIN tasks : P(y)} |-> tasks[x]])

DispatchCount == CountWhere(Dispatching)
HeldCount == CountWhere(Holding)

\* C1: every task that is inside execute_snipe or execute_mev_strategy holds
\* a permit of trade_semaphore.
C1_DispatchHoldsSlot ==
    \A task \in Running : Dispatching(task) => task.holds

C1_Witness ==
    \E task \in Running : task.pc = "execute_snipe" /\ task.holds

\* C2: the number of dispatches in progress never exceeds
\* max_concurrent_trades.
C2_DispatchBound ==
    DispatchCount <= cfg.max_concurrent_trades

C2_Witness ==
    /\ cfg.max_concurrent_trades = 2
    /\ DispatchCount = 2
    /\ waitq # <<>>

\* a step in which a holder's dispatch returns, dropping its permit
HolderReturns ==
    \E task \in Running, outcome \in {"ok", "err"} :
        task.holds /\ DispatchReturn(task, outcome)

\* a step in which a task reaches `trade_semaphore.acquire()`
SnipeAcquire ==
    \E task \in Running :
        ProcessNewListingBegin(task) /\ ShouldSnipeToken(task.ev, cfg)

\* C3: with N = max_concurrent_trades, an acquire with a permit available
\* succeeds at once; an acquirer is suspended (never failed) only while all N
\* permits are held; it leaves the queue only by receiving the permit that a
\* returning holder drops, in queue order, and then runs its dispatch.
C3_AcquireBlocksThenProceeds ==
    /\ [](waitq # <<>> => (permits = 0 /\ HeldCount = cfg.max_concurrent_trades))
    /\ [](\A task \in Waiting : task.pc = "acquire" /\ ~task.holds)
    /\ [][(SnipeAcquire /\ permits > 0)
            => (permits' = permits - 1 /\ waitq' = waitq /\ HeldCount' = HeldCount + 1)]_vars
    /\ [][(SnipeAcquire /\ permits = 0) => Len(waitq') = Len(waitq) + 1]_vars
    /\ [][(HolderReturns /\ waitq # <<>>)
            => (/\ waitq' = Tail(waitq)
                /\ BagIn(Resume(Head(waitq)), tasks')
                /\ HeldCount' = HeldCount)]_vars
    /\ [][Len(waitq') < Len(waitq) => HolderReturns]_vars

C3_Witness ==
    /\ cfg.max_concurrent_trades = 2
    /\ HeldCount = 2
    /\ permits = 0
    /\ Len(waitq) = 1

\* C4: held permits plus available permits always equal
\* max_concurrent_trades, also after a dispatch that failed, and with no
\* dispatch in progress all permits are available again.
C4_SlotsConserved ==
    /\ permits >= 0
    /\ permits + HeldCount = cfg.max_concurrent_trades
    /\ \A task \in Running : task.holds => Dispatching(task)
    /\ (DispatchCount = 0 /\ waitq = <<>>) => permits = cfg.max_concurrent_trades

C4_Witness ==
    /\ \E task \in Running : task.pc = "analyze" /\ task.snipe = "err"
    /\ DispatchCount = 0
    /\ permits = cfg.max_concurrent_trades

\* C5: start() has returned only if both stream consumers have terminated.
C5_StartReturnsAfterAllConsumers ==
    startPc = "returned" => (Terminated(lstream) /\ Terminated(pstream))

\* a step of a task in which an error is raised
TaskErrorStep ==
    \/ \E task \in Running : DispatchReturn(task, "err")
    \/ \E task \in Running, r1 \in RandomSamples, r2 \in RandomSamples :
          ProcessNewListingMev(task, r1, r2, TRUE)
    \/ \E task \in Running, r1 \in RandomSamples : ProcessPriceUpdate(task, r1, TRUE)

\* C6: an error raised by a per-event task leaves both consumers as they
\* are (no step that changes a consumer or reads a message is a task's
\* error), and a running consumer hands every message it reads (and accepts)
\* to a freshly spawned task whatever the tasks before it did.
C6_TaskErrorsContained ==
    /\ [][(lstream' # lstream \/ pstream' # pstream \/ nread' # nread)
            => ~TaskErrorStep]_vars
    /\ [][(\E update \in PriceUpdates : PriceMessage(update))
            => (\E update \in PriceUpdates :
                   tasks' = tasks (+) Bag1(NewTask("price", update)))]_vars
    /\ [][(\E listing \in Listings :
               ListingMessage(listing) /\ StreamAccepts(listing, cfg.target_tokens))
            => (\E listing \in Listings :
                   tasks' = tasks (+) Bag1(NewTask("listing", listing)))]_vars
    /\ []((lstream = "running" /\ nread < MaxEvents)
            => ENABLED (\E listing \in Listings : ListingMessage(listing)))
    /\ []((pstream = "running" /\ nread < MaxEvents)
            => ENABLED (\E update \in PriceUpdates : PriceMessage(update)))

C6_Witness ==
    /\ \E task \in Running : task.pc = "analyze" /\ task.snipe = "err"
    /\ \E task \in Running : task.pc = "spawned"
    /\ lstream = "running"
    /\ pstream = "running"
    /\ nread < MaxEvents

\* C7: a read error of a stream never terminates its consumer.
C7_ReadErrorKeepsConsumer ==
    lstream # "failed" /\ pstream # "failed"

(***************************************************************************)
(* Properties of the confirmation wait                                     *)
(***************************************************************************)
Terminal == {"confirmed", "failed"}

NoTerminalSeen(obs) == \A i \in 1..Len(obs) : obs[i] \notin Terminal

\* the first terminal status of a sequence of observations, "none" without one
FirstTerminal(obs) ==
    IF NoTerminalSeen(obs) THEN "none"
    ELSE obs[CHOOSE i \in 1..Len(obs) :
                /\ obs[i] \in Terminal
                /\ \A j \in 1..(i - 1) : obs[j] \notin Terminal]

\* C8: a wait whose polls all yield pending, unknown or an error ends by
\* returning false and never an error; it makes at most ceil(timeout / 100 ms)
\* polls and none at all when the timeout is 0; and every wait ends.
C8_TimeoutReturnsFalse ==
    /\ []((w.pc = "done" /\ NoTerminalSeen(w.obs)) => w.result = "false")
    /\ [](w.result # "err")
    /\ [](w.polls * SleepTicks < w.timeout + SleepTicks)
    /\ [](w.timeout = 0 => w.polls = 0)
    /\ <>(w.pc = "done")

\* C9: the wait returns true exactly when the first terminal status it
\* observed is Confirmed, false when it is Failed, and it observes nothing
\* after a terminal status.
C9_FirstTerminalDecides ==
    /\ (w.pc = "done" => (w.result = "true" <=> FirstTerminal(w.obs) = "confirmed"))
    /\ ((w.pc = "done" /\ FirstTerminal(w.obs) = "failed") => w.result = "false")
    /\ \A i \in 1..(Len(w.obs) - 1) : w.obs[i] \notin Terminal
    /\ (w.pc # "done" => NoTerminalSeen(w.obs))

C9_Witness ==
    /\ w.pc = "done"
    /\ w.result = "true"
    /\ Len(w.obs) = 2
    /\ w.obs[2] = "confirmed"

\* C10: a poll that returns an error leaves the wait running: it sleeps and
\* checks the timeout again, polls again within the timeout, and a Confirmed
\* seen on a later poll still makes it return true.
C10_PollErrorTolerated ==
    /\ [][(Len(w'.obs) = Len(w.obs) + 1 /\ w'.obs[Len(w'.obs)] = "error")
            => (w'.pc = "sleep" /\ w'.result = "none")]_vars
    /\ [][w.pc = "sleep" => w'.pc = "check"]_vars
    /\ [][(w.pc = "check" /\ w.now - w.start_time < w.timeout) => w'.pc = "poll"]_vars
    /\ []((w.pc = "done" /\ w.obs # <<>> /\ w.obs[Len(w.obs)] = "confirmed")
            => w.result = "true")

C10_Witness ==
    /\ w.pc = "done"
    /\ w.result = "true"
    /\ Len(w.obs) = 2
    /\ w.obs[1] = "error"
    /\ w.obs[2] = "confirmed"

(***************************************************************************)
(* Properties of the submission status                                     *)
(***************************************************************************)
\* C11: once a status query for a bundle id has returned Confirmed or
\* Failed, every later query for that id returns the same status.
C11_TerminalStatusIsStable ==
    [][(/\ statusLog # <<>>
        /\ statusLog[Len(statusLog)] \in Terminal
        /\ Len(statusLog') = Len(statusLog) + 1)
          => statusLog'[Len(statusLog')] = statusLog[Len(statusLog)]]_vars

(***************************************************************************)
(* Properties of the managers' submit operation                            *)
(***************************************************************************)
\* C12: the submit call that spawns a confirmation wait returns in that very
\* step, with the wait not yet resolved; the dispatcher can then return and
\* the manager can take another submit, and a submit under way can take its
\* next step, whatever the wait is doing; the wait's steps leave the manager
\* alone.
C12_SubmitDoesNotAwaitWait ==
    /\ [][manager'.spawned = manager.spawned + 1
            => (/\ manager'.pc = "returned"
                /\ manager'.last = "ok"
                /\ manager.spawned = 0 => (w'.pc = "check" /\ w'.result = "none"))]_vars
    /\ [](manager.pc = "returned" => ENABLED DispatcherReturn)
    /\ []((manager.pc = "idle" /\ manager.backend \in Backends /\ manager.calls < MaxSubmits)
            => ENABLED ManagerSubmit)
    /\ [](manager.pc = "create" => ENABLED BundleCreated("ok"))
    /\ [](manager.pc = "submit" => ENABLED ServiceAnswers("ok"))
    /\ [](manager.pc = "config" => ENABLED WaitSpawned)
    /\ [][(w.pc # "idle" /\ w' # w) => manager' = manager]_vars
    /\ [](manager.pc \in {"idle", "create", "submit", "config", "returned"})

C12_Witness ==
    /\ manager.calls = 2
    /\ manager.spawned = 2
    /\ manager.pc = "idle"
    /\ w.pc = "poll"
    /\ w.polls = 1
    /\ w.result = "none"

(***************************************************************************)
(* Properties of the fan-out                                               *)
(***************************************************************************)
\* what one read of a consumer leaves behind: a freshly spawned task for the
\* message, or nothing when the listing stream's filter rejects it
ReadSpawnsTask ==
    \/ \E listing \in Listings : tasks' = tasks (+) Bag1(NewTask("listing", listing))
    \/ \E update \in PriceUpdates : tasks' = tasks (+) Bag1(NewTask("price", update))
    \/ /\ tasks' = tasks
       /\ \E listing \in Listings : ~StreamAccepts(listing, cfg.target_tokens)

\* C13: with every permit held, a running consumer can still read its next
\* message, the read starts a task for it without touching the semaphore or
\* its queue, and a task that parks in acquire() leaves both consumers alone.
C13_ConsumptionNotBlockedByAdmission ==
    /\ []((permits = 0 /\ lstream = "running" /\ nread < MaxEvents)
            => ENABLED (\E listing \in Listings : ListingMessage(listing)))
    /\ []((permits = 0 /\ pstream = "running" /\ nread < MaxEvents)
            => ENABLED (\E update \in PriceUpdates : PriceMessage(update)))
    /\ [][(permits = 0 /\ nread' = nread + 1)
            => (ReadSpawnsTask /\ waitq' = waitq /\ permits' = permits)]_vars
    /\ [][Len(waitq') > Len(waitq)
            => (lstream' = lstream /\ pstream' = pstream /\ nread' = nread)]_vars

C13_Witness ==
    /\ cfg.max_concurrent_trades = 1
    /\ permits = 0
    /\ Len(waitq) = 1
    /\ \E task \in Running : task.pc = "spawned"
    /\ nread = 3
    /\ lstream = "running"

(***************************************************************************)
(* Properties of the price history                                         *)
(***************************************************************************)
\* the n points appended to a token so far, the oldest beyond the cap
\* evicted: the last min(n, 1000) arrival numbers in arrival order
MostRecent(n) ==
    LET k == Min(n, HistoryCap)
    IN  [i \in 1..k |-> n - k + i]

\* C14: after every history update each token's history holds at most 1000
\* points and is exactly the most recent (up to 1000) points appended to it,
\* in arrival order; after 1001 points the first is gone and the points
\* 2..1001 remain in order.
C14_HistoryKeepsLast1000 ==
    \A t \in HistoryTokens :
        /\ Len(price_history[t]) <= HistoryCap
        /\ price_history[t] = MostRecent(pushed[t])
        /\ pushed[t] = HistoryCap + 1
             => /\ \A i \in 1..Len(price_history[t]) : price_history[t][i] # 1
                /\ price_history[t] = [i \in 1..HistoryCap |-> i + 1]

C14_Witness ==
    /\ pushed["A"] = HistoryCap + 1
    /\ Len(price_history["A"]) = HistoryCap
    /\ price_history["A"][1] = 2
    /\ price_history["A"][HistoryCap] = HistoryCap + 1
    /\ pushed["B"] = 1

(***************************************************************************)
(* Properties of single calls                                              *)
(***************************************************************************)
\* profit * confidence * (1 - risk) of a recorded calculate_priority call,
\* as f64 computes it
Combined == CombinedScore(call.profit, call.confidence, call.risk)
AtCritical == Combined = Percent(CriticalScore)
AtHigh == Combined = Percent(HighScore)
AtMedium == Combined = Percent(MediumScore)

\* C15: calculate_priority returns Critical exactly when combined > 0.8,
\* High exactly when 0.6 < combined <= 0.8, Medium exactly when
\* 0.4 < combined <= 0.6 and Low otherwise; combined = 0.8, 0.6 and 0.4 give
\* High, Medium and Low.
C15_PriorityThresholds ==
    call.op = "calculate_priority" =>
        /\ call.result \in {Low, Medium, High, Critical}
        /\ call.result = Critical <=> Greater(Combined, Percent(CriticalScore))
        /\ call.result = High <=> (/\ Greater(Combined, Percent(HighScore))
                                   /\ AtLeast(Percent(CriticalScore), Combined))
        /\ call.result = Medium <=> (/\ Greater(Combined, Percent(MediumScore))
                                     /\ AtLeast(Percent(HighScore), Combined))
        /\ call.result = Low <=> AtLeast(Percent(MediumScore), Combined)
        /\ AtCritical => call.result = High
        /\ AtHigh => call.result = Medium
        /\ AtMedium => call.result = Low

C15_Witness ==
    /\ call.op = "calculate_priority"
    /\ AtCritical
    /\ call.result = High
    /\ call.risk = 50

\* the signals of a sequence as a bag
RECURSIVE SeqToBag(_)
SeqToBag(seq) ==
    IF seq = <<>> THEN EmptyBag ELSE Bag1(Head(seq)) (+) SeqToBag(Tail(seq))

\* C16: the list analyze_opportunities returns is ordered by priority,
\* highest first, and within one priority by expected_profit, highest first,
\* and it holds exactly the signals collected in the cycle.
C16_SignalsSorted ==
    call.op = "sort_signals" =>
        /\ \A i \in 1..(Len(call.result) - 1) :
              LET a == call.result[i]
                  b == call.result[i + 1]
              IN  \/ a.priority > b.priority
                  \/ /\ a.priority = b.priority
                     /\ AtLeast(a.expected_profit, b.expected_profit)
        /\ SeqToBag(call.result) = SeqToBag(call.signals)

C16_Witness ==
    /\ call.op = "sort_signals"
    /\ Len(call.signals) = 3
    /\ call.signals[1].priority = High /\ call.signals[1].expected_profit = Amount(1000)
    /\ call.signals[2].priority = Critical /\ call.signals[2].expected_profit = Amount(1000)
    /\ call.signals[3].priority = High /\ call.signals[3].expected_profit = Amount(1001)
    /\ call.result[1].priority = Critical
    /\ call.result[2].expected_profit = Amount(1001)
    /\ call.result[3].expected_profit = Amount(1000)

\* C17: a listing whose initial_liquidity is below the configured minimum
\* is never sniped (should_snipe_token is false, so execute_snipe is not
\* called) and gets no FrontRun or Arbitrage signal from the detector,
\* whatever the target list and the enabled strategies are.
C17_LowLiquidityYieldsNothing ==
    /\ call.op = "should_snipe_token"
       /\ call.listing.initial_liquidity < call.config.min_liquidity
       => call.result = FALSE
    /\ call.op = "analyze_new_listing"
       /\ call.listing.initial_liquidity < call.config.min_liquidity
       => call.result = NoSignal

\* just below the minimum, both strategies enabled, the token targeted, the
\* random factor at its top: still no signal
C17_Witness ==
    /\ call.op = "analyze_new_listing"
    /\ call.listing.initial_liquidity = 49999
    /\ call.config.min_liquidity = 50000
    /\ call.config.mev_strategies = {"frontrun", "arbitrage"}
    /\ call.listing.token_address \in call.config.target_tokens
    /\ call.r1 = 999 /\ call.r2 = 999
    /\ call.result = NoSignal

\* C18: should_snipe_token is true exactly when the liquidity is at least
\* the minimum and the target list is empty or holds the token.
C18_ShouldSnipeExactly ==
    call.op = "should_snipe_token" =>
        (call.result = TRUE <=>
            /\ call.listing.initial_liquidity >= call.config.min_liquidity
            /\ \/ call.config.target_tokens = {}
               \/ call.listing.token_address \in call.config.target_tokens)

\* liquidity exactly at the minimum, token in a non-empty target list
C18_Witness ==
    /\ call.op = "should_snipe_token"
    /\ call.listing.initial_liquidity = call.config.min_liquidity
    /\ call.config.target_tokens = {"A"}
    /\ call.listing.token_address = "A"
    /\ call.result = TRUE

\* C19: execute_mev_strategy is called for a signal of a listing only if
\* its priority is High or Critical, for a signal of a price update only if
\* its priority is Medium, High or Critical; a signal below the gate of its
\* trigger is not executed.
C19_ExecutionGatedByPriority ==
    call.op = "dispatch_signals" =>
        LET floor == IF call.kind = "listing" THEN High ELSE Medium
            executed == {call.result[i] : i \in 1..Len(call.result)}
        IN  /\ \A s \in executed : s.priority >= floor
            /\ \A i \in 1..Len(call.signals) :
                  call.signals[i].priority < floor => call.signals[i] \notin executed

\* a Medium signal of a price update is executed
C19_Witness ==
    /\ call.op = "dispatch_signals"
    /\ call.kind = "price"
    /\ Len(call.signals) = 1
    /\ call.signals[1].priority = Medium
    /\ call.result = call.signals

\* C20: after a cleanup at time now every record older than the backend's
\* retention window (300 s bundles, 600 s relay submissions) is absent, every
\* record whose age is within the window is still present, and no retained
\* record is changed.
C20_CleanupKeepsWindow ==
    [][manager'.last = "cleanup" /\ manager.last # "cleanup" =>
        LET window == Retention(manager.backend)
            age(record) == manager.now - record.created_at
        IN  /\ \A record \in manager.pending :
                  age(record) > window => record \notin manager'.pending
            /\ \A record \in manager.pending :
                  age(record) <= window => record \in manager'.pending
            /\ manager'.pending \subseteq manager.pending]_vars

\* C21: the periodic housekeeping cleans the tracker the dispatches write
\* to: every submission a dispatch has recorded is eventually removed by the
\* cleanup loop.
C21_CleanupLoopSweepsTracker ==
    \A id \in 1..MaxTracked :
        (\E record \in manager.pending : record.id = id) ~> (id \in manager.swept)

\* C22: once SniperBot::new has returned, exactly one of the two managers
\* exists and every dispatch submits through the backend of that manager.
C22_ExactlyOneBackend ==
    /\ manager.jito_manager # manager.nozomi_manager
    /\ call # NoCall =>
          \A i \in 1..Len(call.submitted) :
              call.submitted[i] = (IF manager.jito_manager THEN "jito" ELSE "nozomi")

\* the configured service has no constructed manager
NoManagerForService ==
    ~ \/ cfg.confirmation_service = "jito" /\ manager.jito_manager
      \/ cfg.confirmation_service = "nozomi" /\ manager.nozomi_manager

\* C23: when the configured backend has no manager (or the service name is
\* unknown) a dispatch returns an error without any submission, and only
\* that dispatch is aborted: its caller goes on and later dispatches start.
C23_NoBackendAbortsOnlyThatDispatch ==
    NoManagerForService =>
        /\ manager.spawned = 0
        /\ manager.last \in {"none", "no_backend", "create_err"}
        /\ call # NoCall =>
              /\ call.submitted = <<>>
              /\ call.pc # "submit"
              /\ call.pc = "returned" =>
                    /\ call.result \in {"no_backend", "create_err"}
                    /\ ENABLED DispatchEnd
        /\ call = NoCall /\ manager.calls < MaxDispatches =>
              /\ permits = cfg.max_concurrent_trades
              /\ \A kind \in DispatchKinds : ENABLED DispatchBegin(kind[1], kind[2])

\* two dispatches were aborted for the unknown service, a third is under way
C23_Witness ==
    /\ cfg.confirmation_service = "helius"
    /\ manager.calls = 2
    /\ manager.last = "no_backend"
    /\ call # NoCall
    /\ call.pc = "select"

\* C24: a dispatch calls the backend's submit operation at most once; when
\* the submit fails the dispatch is over, and once it has returned to its
\* caller the permit it held is available again.
C24_NoRetry ==
    /\ call # NoCall =>
          /\ Len(call.submitted) <= 1
          /\ call.result = "submit_err" => call.pc = "returned" /\ Len(call.submitted) = 1
          /\ permits = cfg.max_concurrent_trades - (IF call.holds THEN 1 ELSE 0)
          /\ call.pc = "returned" => ENABLED DispatchEnd
    /\ call = NoCall => permits = cfg.max_concurrent_trades

\* after a dispatch whose submit failed: nothing in progress, all permits back
C24_Witness ==
    /\ manager.last = "submit_err"
    /\ manager.spawned = 0
    /\ call = NoCall
    /\ permits = cfg.max_concurrent_trades

\* C25: for one listing with liquidity above the minimum and FrontRun and
\* Arbitrage enabled, analyze_opportunities returns 0 to 2 signals, each a
\* FrontRun or an Arbitrage signal, ordered by priority and then by
\* expected_profit, highest first.
C25_OneListingSignals ==
    /\ call.op = "analyze_opportunities"
    /\ Len(call.listings) = 1
    /\ call.updates = <<>>
    /\ call.listings[1].ev.initial_liquidity > call.config.min_liquidity
    /\ {"frontrun", "arbitrage"} \subseteq call.config.mev_strategies
    /\ call.result.status = "ok"
    => LET signals == call.result.signals
       IN  /\ Len(signals) \in 0..2
           /\ \A i \in 1..Len(signals) : signals[i].strategy \in {"frontrun", "arbitrage"}
           /\ \A i \in 1..(Len(signals) - 1) :
                 \/ signals[i].priority > signals[i + 1].priority
                 \/ /\ signals[i].priority = signals[i + 1].priority
                    /\ AtLeast(signals[i].expected_profit, signals[i + 1].expected_profit)

\* 40 SOL of liquidity, the front-run profit at its floor: one Arbitrage signal
C25_Witness ==
    /\ call.op = "analyze_opportunities"
    /\ Len(call.listings) = 1
    /\ call.updates = <<>>
    /\ call.listings[1].ev.initial_liquidity = 40000
    /\ call.listings[1].r1 = 0
    /\ call.result.status = "ok"
    /\ Len(call.result.signals) = 1
    /\ call.result.signals[1].strategy = "arbitrage"

\* C29: within one analyze_opportunities call a detection error for one
\* event does not abort the batch: the signal of every other event of the
\* call is among the signals returned.
C29_DetectionErrorDoesNotAbortBatch ==
    call.op = "analyze_opportunities" /\ call.result.status # "panic" =>
        LET returned == {call.result.signals[i] : i \in 1..Len(call.result.signals)}
        IN  /\ \A i \in 1..Len(call.listings) :
                  LET e == call.listings[i]
                      signal == AnalyzeNewListing(e.ev, call.config, e.r1, e.r2)
                  IN  signal # NoSignal /\ ~e.fails => signal \in returned
            /\ \A i \in 1..Len(call.updates) :
                  LET e == call.updates[i]
                      signal == AnalyzePriceUpdate(e.ev, call.config, e.r1)
                  IN  signal # NoSignal /\ ~e.fails => signal \in returned

\* C26: the price history is carried across detection cycles: the detector
\* used for the event that follows k price updates of an instrument holds
\* those k points in arrival order (k <= 1000).
C26_HistoryCarriedAcrossEvents ==
    call.op = "process_price_update" /\ call.pc = "spawned" =>
        call.detector[call.token] = [i \in 1..(call.point - 1) |-> i]

\* the timestamps of the updates of one token, in the order of the slice
RECURSIVE TimestampsOf(_, _)
TimestampsOf(updates, t) ==
    IF updates = <<>> THEN <<>>
    ELSE (IF Head(updates).token_address = t THEN <<Head(updates).timestamp>> ELSE <<>>)
         \o TimestampsOf(Tail(updates), t)

\* C27: a price update older than the last stored point of its instrument
\* is accepted and appended at the end of the history; no update is
\* rejected or reordered because of its timestamp.
C27_OutOfOrderUpdatesAppended ==
    call.op = "update_price_history" =>
        \A t \in HistoryTokens :
            call.result[t] = call.histories[t] \o TimestampsOf(call.updates, t)

\* the stored point has timestamp 3, the update timestamp 1
C27_Witness ==
    /\ call.op = "update_price_history"
    /\ call.histories["A"] = <<3>>
    /\ call.updates = <<[token_address |-> "A", timestamp |-> 1]>>
    /\ call.result["A"] = <<3, 1>>

\* listing tasks that have not yet passed the MEV analysis of
\* process_new_listing, running or parked in acquire()
BeforeAnalysis(task) ==
    task.kind = "listing" /\ task.pc \in {"spawned", "execute_snipe", "analyze"}

BeforeAnalysisCount ==
    CountWhere(BeforeAnalysis)
    + Cardinality({i \in 1..Len(waitq) : waitq[i].kind = "listing"})

\* C28: the MEV analysis of a listing does not depend on the snipe: a
\* listing task gets past the analysis step only by taking it, whether
\* should_snipe_token was false, the snipe succeeded or execute_snipe failed.
C28_AnalysisIndependentOfSnipe ==
    [][BeforeAnalysisCount' < BeforeAnalysisCount =>
          \E task \in Running :
              /\ task.kind = "listing"
              /\ task.pc = "analyze"
              /\ CopiesIn(task, tasks') < CopiesIn(task, tasks)]_vars

\* MEV enabled, the snipe of a listing has failed, its task is at the analysis
C28_Witness ==
    /\ cfg.enable_mev
    /\ \E task \in Running :
          task.kind = "listing" /\ task.pc = "analyze" /\ task.snipe = "err"


\* C30: detection waits on nothing and completes in every interleaving, a
\* write request on the configuration between its two read locks included:
\* as long as a detection has not returned, some task can step.
C30_DetectionAlwaysCompletes ==
    (call # NoCall /\ call.op = "analyze"
        /\ \E d \in Detections : call.pc[d] # "done")
    => ENABLED NextConfigLock


\* the kinds of the directives of a plan, in the order of the list
DirectiveKinds(plan) ==
    [i \in 1..Len(plan.risk_mitigation) |-> plan.risk_mitigation[i].kind]

\* C31: the plan of a signal varies by strategy in its directives and in its
\* slippage bound: Sandwich has max-gas-price 2 x max_gas_price, timeout
\* 3000 ms and slippage 2 x max_slippage, Arbitrage has timeout 10000 ms and
\* slippage max_slippage / 2, and the directives are listed as max-gas-price,
\* timeout, slippage-protection.
C31_PlanVariesByStrategy ==
    (call.op = "create_execution_plan") =>
        LET plan == call.result
            c == call.config
        IN  /\ DirectiveKinds(plan) = <<"MaxGasPrice", "Timeout", "SlippageProtection">>
            /\ call.strategy = "sandwich" =>
                  /\ plan.risk_mitigation[1].amount = 2 * c.max_gas_price
                  /\ plan.risk_mitigation[2].duration_ms = 3000
                  /\ plan.risk_mitigation[3].max_slippage
                        = F64Mul(ConfiguredSlippage(c), F64FromInt(2))
                  /\ plan.max_slippage = F64Mul(ConfiguredSlippage(c), F64FromInt(2))
            /\ call.strategy = "arbitrage" =>
                  /\ plan.risk_mitigation[2].duration_ms = 10000
                  /\ plan.risk_mitigation[3].max_slippage
                        = F64Mul(ConfiguredSlippage(c), F64FromRatio(1, 2))
                  /\ plan.max_slippage = F64Mul(ConfiguredSlippage(c), F64FromRatio(1, 2))


\* C32: a bundle built from n transactions has exactly 2n entries: input
\* transaction i, carrying the configured tip amount, at entry 2i-1 and its
\* tip transfer, with priority_fee 0 and tip_amount 0, at entry 2i.
C32_BundlePairsTransactionWithTip ==
    (call.op = "create_bundle" /\ call.result.status = "ok") =>
        LET entries == call.result.transactions
            n == Len(call.transactions)
        IN  /\ Len(entries) = 2 * n
            /\ \A i \in 1..n :
                  /\ entries[2 * i - 1].transaction = call.transactions[i]
                  /\ entries[2 * i - 1].tip_amount = call.jito_tip_amount
                  /\ entries[2 * i].transaction =
                        CreateTipTransaction(call.jito_tip_amount, call.rpc[i].blockhash)
                  /\ entries[2 * i].priority_fee = 0
                  /\ entries[2 * i].tip_amount = 0

\* two different transactions bundled with a non-zero tip
C32_Witness ==
    /\ call.op = "create_bundle"
    /\ call.result.status = "ok"
    /\ Len(call.transactions) = 2
    /\ call.transactions[1] # call.transactions[2]
    /\ call.jito_tip_amount > 0
    /\ Len(call.result.transactions) = 4


\* C33: no component acts on a stale target list: for every listing read,
\* before or after a change of target_tokens, the filter of the stream
\* consumer and the snipe decision both use the list configured at that time.
C33_NoStaleTargetList ==
    (call # NoCall /\ call.op = "listing_stream") =>
        /\ call.reads > 0 =>
              call.last.delivered = StreamAccepts(call.last.listing, call.last.targets)
        /\ call.decisions > 0 =>
              call.decided.snipe =
                  ShouldSnipeToken(call.decided.listing,
                                   [cfg EXCEPT !.target_tokens = call.decided.targets])


\* C34: every signal the detectors produce has priority Low: the Sandwich
\* profit never exceeds its 0.2 floor, the signals of the other strategies
\* score below the Medium threshold, and no signal returned by
\* analyze_opportunities passes the listing gate or the price gate, so
\* execute_mev_strategy is called for none.
C34_EverySignalIsLow ==
    /\ (call.op = "detect_opportunity") =>
          /\ call.input.strategy = "sandwich" =>
                ~Greater(call.profit, Amount(SandwichFloor)) /\ call.result = NoSignal
          /\ call.result # NoSignal => call.result.priority = Low
    /\ (call.op = "analyze_opportunities" /\ call.result.status = "ok") =>
          /\ \A i \in 1..Len(call.result.signals) : call.result.signals[i].priority = Low
          /\ ExecutedSignals("listing", call.result.signals) = <<>>
          /\ ExecutedSignals("price", call.result.signals) = <<>>

\* a front-run signal at the top of the formula: liquidity at or above the
\* cap of 100 SOL and the random factor just below 1
C34_Witness ==
    /\ call.op = "detect_opportunity"
    /\ call.input.strategy = "frontrun"
    /\ call.input.initial_liquidity >= 100000
    /\ call.input.rnd = 999
    /\ call.result # NoSignal
    /\ call.result.priority = Low


\* C35: an event yields at most one signal: a listing yields an Arbitrage
\* signal only when FrontRun is disabled or found nothing, a price update
\* yields a BackRun signal only when Sandwich is disabled or found nothing,
\* and analyze_opportunities returns at most one signal per event passed in.
C35_AtMostOneSignalPerEvent ==
    /\ (call.op = "analyze_new_listing" /\ call.result.strategy = "arbitrage") =>
          \/ "frontrun" \notin call.config.mev_strategies
          \/ DetectFrontrunOpportunity(call.listing, call.r1) = NoSignal
    /\ (call.op = "analyze_price_update" /\ call.result.strategy = "backrun") =>
          \/ "sandwich" \notin call.config.mev_strategies
          \/ DetectSandwichOpportunity(call.update) = NoSignal
    /\ (call.op = "analyze_opportunities" /\ call.result.status = "ok") =>
          Len(call.result.signals) <= Len(call.listings) + Len(call.updates)

\* both strategies enabled and both detectors find an opportunity for the
\* listing: the signal is the FrontRun one
C35_Witness ==
    /\ call.op = "analyze_new_listing"
    /\ {"frontrun", "arbitrage"} \subseteq call.config.mev_strategies
    /\ DetectArbitrageOpportunity(call.listing, call.r2) # NoSignal
    /\ call.result.strategy = "frontrun"


\* C36: after a submit of either manager returns an id, its tracker holds a
\* record with exactly that id as key; after a submit fails, the tracker holds
\* no record of the attempt, that is, it is as it was before the call.
C36_TrackerMatchesSubmitResult ==
    (call.op = "submit") =>
        /\ call.result.status = "ok" =>
              \E record \in call.result.pending : record.id = call.result.id
        /\ call.result.status = "err" => call.result.pending = call.pending


\* the ids the submits of the tracker run have handed out
TrackedIds == {record.id : record \in manager.pending}

\* C37: BundleManager::get_bundle_status answers Pending exactly for the ids
\* that are keys of the tracker and Confirmed for all others, never Failed: an
\* id whose record the cleanup has removed, or that was never recorded, is
\* reported Confirmed.
C37_MissingBundleReportedConfirmed ==
    (manager.backend = "jito") =>
        \A id \in 1..(MaxTracked + 1) :
            LET status == ManagerGetBundleStatus(manager.pending, id)
            IN  /\ status # "failed"
                /\ (status = "pending") <=> (id \in TrackedIds)
                /\ (id \notin TrackedIds) => (status = "confirmed")

\* the record of bundle 1 was stored and the cleanup has removed it
C37_Witness ==
    /\ manager.backend = "jito"
    /\ manager.calls >= 1
    /\ manager.last = "cleanup"
    /\ 1 \notin TrackedIds
    /\ ManagerGetBundleStatus(manager.pending, 1) = "confirmed"


\* the slots taken by dispatches that have not returned to their block's end
SlotsInUse == IF call # NoCall /\ call.holds THEN 1 ELSE 0

\* C38: a slot is held only until the submit call of its dispatch has
\* returned, not while the detached confirmation wait is pending: the free
\* slots are the capacity minus the dispatches in progress, however many
\* submissions await confirmation.
C38_SlotNotHeldDuringWait ==
    permits = cfg.max_concurrent_trades - SlotsInUse

\* more submissions await confirmation than there are slots, and every slot
\* is free
C38_Witness ==
    /\ manager.awaiting > cfg.max_concurrent_trades
    /\ permits = cfg.max_concurrent_trades
    /\ call = NoCall
    /\ manager.last = "ok"


\* execute_mev_strategy is entered for the signal of the task and ends as
\* the creation of its transactions and the submit decide
DispatchedAsUsual ==
    /\ call' # NoCall
    /\ call'.entered_at = manager.now
    /\ call'.pc \in {"submitted", "failed"}
    /\ call'.pc = "submitted" => ParsesAsPubkey(call.pool_address)
    /\ call'.deadline = call.deadline

NothingDecisiveSeen == \A i \in 1..Len(w.obs) : w.obs[i] \notin {"confirmed", "failed"}

\* C40: in the relay's confirmation wait a status string other than
\* "confirmed", "failed" and "pending" is treated like "pending": the wait
\* goes on polling, and it returns false when the timeout passes without a
\* "confirmed" or "failed".
C40_UnknownStatusKeepsPolling ==
    (w.backend = "nozomi" /\ Len(w.obs) > 0 /\ NothingDecisiveSeen) =>
        /\ w.obs[Len(w.obs)] = "unknown" =>
              \/ w.pc \in {"sleep", "check", "poll"}
              \/ /\ w.pc = "done"
                 /\ ~LoopContinues(Elapsed(w), w.timeout)
        /\ w.pc = "done" => w.result = "false"

\* the relay answered with an unknown status and never with a decisive one:
\* the wait has timed out
C40_Witness ==
    /\ w.backend = "nozomi"
    /\ w.pc = "done"
    /\ w.result = "false"
    /\ NothingDecisiveSeen
    /\ \E i \in 1..Len(w.obs) : w.obs[i] = "unknown"

====
